---- MODULE Spec2Model ----
(***************************************************************************)
(* Model of lambda_function.py: the JSON-to-Parquet analytics Lambda.      *)
(*                                                                         *)
(* Strings are sequences of one-character strings, so that the string      *)
(* operations of the code (replace, basename, splitext, substring tests,   *)
(* fromisoformat, strftime) are computed and not assumed.  JSON values are *)
(* tagged tuples: <<"null">>, <<"int", n>>, <<"str", s>>, <<"list", l>>,   *)
(* <<"obj", f>> where f is a function from key names to JSON values.       *)
(***************************************************************************)
EXTENDS Integers, Sequences, FiniteSets, TLC

(* ------------------------------ bounds -------------------------------- *)

\* longest batch of trigger records in one event
MaxRecords == 2

\* number of hours the wall clock may advance during a behaviour
MaxTicks == 1

(* ---------------------------- JSON values ----------------------------- *)

\* F applied to the value of v, v being evaluated once
With(v, F(_)) == CHOOSE out \in {F(x) : x \in {v}} : TRUE

JNull == <<"null">>
JInt(n) == <<"int", n>>
JStr(s) == <<"str", s>>
JList(l) == <<"list", l>>
JObj(f) == <<"obj", f>>

IsNull(v) == v[1] = "null"
IsInt(v) == v[1] = "int"
IsStr(v) == v[1] = "str"
IsList(v) == v[1] = "list"
IsDict(v) == v[1] = "obj"

\* the empty dict {}
Empty == [k \in {} |-> JNull]

\* d.get(k): the value under k, None when the key is absent
Get(d, k) == IF k \in DOMAIN d[2] THEN d[2][k] ELSE JNull

\* d.get(k, default)
GetOr(d, k, default) == IF k \in DOMAIN d[2] THEN d[2][k] ELSE default

\* k in d
HasKey(d, k) == k \in DOMAIN d[2]

\* Python truthiness of a JSON value
Truthy(v) ==
    CASE IsNull(v) -> FALSE
      [] IsInt(v) -> v[2] # 0
      [] IsStr(v) -> Len(v[2]) > 0
      [] IsList(v) -> Len(v[2]) > 0
      [] IsDict(v) -> DOMAIN v[2] # {}

\* a or b
PyOr(a, b) == IF Truthy(a) THEN a ELSE b

(* ------------------------------ strings ------------------------------- *)

\* needle in hay
Contains(hay, needle) ==
    \E i \in 0..(Len(hay) - Len(needle)) :
        SubSeq(hay, i + 1, i + Len(needle)) = needle

\* positions of character c in s
Positions(s, c) == {i \in 1..Len(s) : s[i] = c}

Max(S) == CHOOSE m \in S : \A n \in S : n <= m

\* the position of the last c in s, 0 when there is none
RFind(s, c) == IF Positions(s, c) = {} THEN 0 ELSE Max(Positions(s, c))

\* the whole path taken for its final component
KeepDirectory(p) == p

\* os.path.basename: what follows the last "/"
Basename(p) == SubSeq(p, RFind(p, "/") + 1, Len(p))

\* what precedes the first dot of p
SplitAtFirstDot(p) ==
    IF Positions(p, ".") = {} THEN p
    ELSE SubSeq(p, 1, (CHOOSE i \in Positions(p, ".") : \A j \in Positions(p, ".") : i <= j) - 1)

\* os.path.splitext(p)[0]: the last dot starts the extension unless only dots
\* precede it in the final component
SplitextRoot(p) ==
    LET sep == RFind(p, "/")
        dot == RFind(p, ".")
    IN  IF dot > sep /\ \E i \in (sep + 1)..(dot - 1) : p[i] # "."
        THEN SubSeq(p, 1, dot - 1)
        ELSE p

RECURSIVE Flat(_)
\* the concatenation of a sequence of sequences
Flat(ss) == IF ss = <<>> THEN <<>> ELSE Head(ss) \o Flat(Tail(ss))

RECURSIVE ReplaceChar(_, _, _)
\* s.replace(c, r) for a single character c
ReplaceChar(s, c, r) ==
    IF s = <<>> THEN <<>>
    ELSE (IF Head(s) = c THEN r ELSE <<Head(s)>>) \o ReplaceChar(Tail(s), c, r)

RECURSIVE unquote_plus(_)
\* urllib.parse.unquote_plus: "+" is a space, %20 is a space
unquote_plus(s) ==
    IF s = <<>> THEN <<>>
    ELSE IF Head(s) = "+" THEN <<" ">> \o unquote_plus(Tail(s))
    ELSE IF Len(s) >= 3 /\ SubSeq(s, 1, 3) = <<"%", "2", "0">>
         THEN <<" ">> \o unquote_plus(SubSeq(s, 4, Len(s)))
    ELSE <<Head(s)>> \o unquote_plus(Tail(s))

(* --------------------------- dates and time --------------------------- *)

Digits == <<"0", "1", "2", "3", "4", "5", "6", "7", "8", "9">>

IsDigit(c) == \E d \in 1..10 : Digits[d] = c

DigitVal(c) == (CHOOSE d \in 1..10 : Digits[d] = c) - 1

AllDigits(s) == \A i \in 1..Len(s) : IsDigit(s[i])

RECURSIVE NumVal(_)
NumVal(s) == IF s = <<>> THEN 0 ELSE 10 * NumVal(SubSeq(s, 1, Len(s) - 1)) + DigitVal(s[Len(s)])

\* n written with two digits
Fmt2(n) == <<Digits[((n \div 10) % 10) + 1], Digits[(n % 10) + 1]>>

\* n written with four digits
Fmt4(n) == Fmt2(n \div 100) \o Fmt2(n % 100)

DaysIn(y, m) ==
    IF m = 2 THEN (IF y % 4 = 0 /\ (y % 100 # 0 \/ y % 400 = 0) THEN 29 ELSE 28)
    ELSE IF m \in {4, 6, 9, 11} THEN 30 ELSE 31

\* the result of a failed parse
NoTime == [ok |-> FALSE, year |-> 0, month |-> 0, day |-> 0, hour |-> 0]

\* the ten characters YYYY-MM-DD name a date
IsoDateOk(s) ==
    /\ Len(s) >= 10
    /\ AllDigits(SubSeq(s, 1, 4)) /\ s[5] = "-"
    /\ AllDigits(SubSeq(s, 6, 7)) /\ s[8] = "-"
    /\ AllDigits(SubSeq(s, 9, 10))
    /\ NumVal(SubSeq(s, 1, 4)) >= 1
    /\ NumVal(SubSeq(s, 6, 7)) \in 1..12
    /\ NumVal(SubSeq(s, 9, 10)) \in 1..DaysIn(NumVal(SubSeq(s, 1, 4)), NumVal(SubSeq(s, 6, 7)))

\* a UTC offset +HH:MM or -HH:MM
IsoOffsetOk(s) ==
    /\ Len(s) = 6
    /\ s[1] \in {"+", "-"}
    /\ AllDigits(SubSeq(s, 2, 3)) /\ s[4] = ":" /\ AllDigits(SubSeq(s, 5, 6))
    /\ NumVal(SubSeq(s, 2, 3)) <= 23 /\ NumVal(SubSeq(s, 5, 6)) <= 59

\* a time of day HH, HH:MM or HH:MM:SS, with an optional UTC offset
IsoTimeOk(s) ==
    /\ Len(s) >= 2 /\ AllDigits(SubSeq(s, 1, 2)) /\ NumVal(SubSeq(s, 1, 2)) <= 23
    /\ \/ Len(s) = 2
       \/ IsoOffsetOk(SubSeq(s, 3, Len(s)))
       \/ /\ Len(s) >= 5 /\ s[3] = ":" /\ AllDigits(SubSeq(s, 4, 5))
          /\ NumVal(SubSeq(s, 4, 5)) <= 59
          /\ \/ Len(s) = 5
             \/ IsoOffsetOk(SubSeq(s, 6, Len(s)))
             \/ /\ Len(s) >= 8 /\ s[6] = ":" /\ AllDigits(SubSeq(s, 7, 8))
                /\ NumVal(SubSeq(s, 7, 8)) <= 59
                /\ \/ Len(s) = 8
                   \/ IsoOffsetOk(SubSeq(s, 9, Len(s)))

\* datetime.fromisoformat: YYYY-MM-DD[*HH[:MM[:SS]][+HH:MM]]; the fields are those
\* written in the string (an offset does not shift them); ok = FALSE is ValueError
fromisoformat(s) ==
    IF /\ IsoDateOk(s)
       /\ \/ Len(s) = 10
          \/ Len(s) >= 12 /\ IsoTimeOk(SubSeq(s, 12, Len(s)))
    THEN [ok |-> TRUE,
          year |-> NumVal(SubSeq(s, 1, 4)),
          month |-> NumVal(SubSeq(s, 6, 7)),
          day |-> NumVal(SubSeq(s, 9, 10)),
          hour |-> IF Len(s) = 10 THEN 0 ELSE NumVal(SubSeq(s, 12, 13))]
    ELSE NoTime

\* strftime('%Y-%m-%d')
StrfDate(t) == Fmt4(t.year) \o <<"-">> \o Fmt2(t.month) \o <<"-">> \o Fmt2(t.day)

\* strftime('%H')
StrfHour(t) == Fmt2(t.hour)

(* -------------------------- error taxonomy ---------------------------- *)

\* ErrorCategory: the values of the enumeration
ErrorCategory ==
    {"ConfigurationError", "S3ReadError", "S3WriteError", "JSONParseError",
     "JSONValidationError", "DataTransformationError", "PartitioningError",
     "UnknownError"}

\* the exception classes that carry a category; the category has the class's name
ClassifiedErrors ==
    {"S3ReadError", "JSONParseError", "JSONValidationError",
     "DataTransformationError", "S3WriteError", "PartitioningError"}

\* a normal return with value v
Ok(v) == [raised |-> "", val |-> v]

\* an exception of class c
Raise(c) == [raised |-> c, val |-> JNull]

(* ------------------------------ metrics ------------------------------- *)

MetricNames ==
    {"Invocations", "InputFileSize", "Errors", "FatalErrors",
     "DuplicateFileSkipped", "ParquetWriteDuration", "RecordsProcessed",
     "ParquetFilesWritten", "FilesProcessed", "FilesFailed",
     "ErrorsByCategory", "InvocationDuration"}

NoMetrics == [n \in MetricNames |-> 0]

RECURSIVE CountIn(_, _)
\* how often name occurs in the sequence names
CountIn(names, name) ==
    IF names = <<>> THEN 0
    ELSE (IF Head(names) = name THEN 1 ELSE 0) + CountIn(Tail(names), name)

\* publish_metric for each name of names, in order, against the data points m
\* the sink holds: put_metric_data stores the point when the sink is up and
\* raises when it is down, and the exception is swallowed
publish_metric(m, names, up) ==
    IF up THEN With(names, LAMBDA ns : [n \in MetricNames |-> m[n] + CountIn(ns, n)]) ELSE m

(* --------------------------- configuration ---------------------------- *)

\* an environment variable that is not set
Unset == <<"unset">>

\* os.environ.get(name, default)
EnvGet(env, name, default) == IF env[name] = Unset THEN default ELSE env[name][2]

DefaultSourceBucket ==
    <<"f", "h", "i", "r", "-", "l", "c", "a", "-", "p", "e", "r", "s", "i", "s", "t">>

DefaultTargetBucket ==
    <<"f", "h", "i", "r", "-", "i", "n", "g", "e", "s", "t", "-",
      "a", "n", "a", "l", "y", "t", "i", "c", "s">>

\* get_bucket_config: a variable that is not set takes its default; an empty
\* one raises ValueError
get_bucket_config(env) ==
    LET source_bucket == EnvGet(env, "SOURCE_BUCKET", DefaultSourceBucket)
        target_bucket == EnvGet(env, "TARGET_BUCKET", DefaultTargetBucket)
    IN  IF source_bucket = <<>> \/ target_bucket = <<>>
        THEN Raise("ValueError")
        ELSE [raised |-> "",
              val |-> [source_bucket |-> source_bucket, target_bucket |-> target_bucket]]

(* --------------------------- payload reader --------------------------- *)

\* what get_object finds under a key: nothing, text that is not JSON, or the
\* text of a JSON value
NoObject == [kind |-> "absent", data |-> JNull]
NotJson == [kind |-> "text", data |-> JNull]
JsonText(v) == [kind |-> "json", data |-> v]

\* a reader that does not look at the type of response
ReadAnyResponse(content) ==
    IF content.kind = "absent" THEN Raise("S3ReadError")
    ELSE IF content.kind = "text" THEN Raise("JSONParseError")
    ELSE IF ~IsDict(content.data) THEN Raise("JSONValidationError")
    ELSE IF ~HasKey(content.data, "meta") \/ ~HasKey(content.data, "response")
         THEN Raise("JSONValidationError")
    ELSE Ok(content.data)

\* read_json_from_s3 on the stored content: read, then parse, then validate
read_json_from_s3(content) ==
    IF content.kind = "absent" THEN Raise("S3ReadError")
    ELSE IF content.kind = "text" THEN Raise("JSONParseError")
    ELSE LET data == content.data
         IN  IF ~IsDict(data) THEN Raise("JSONValidationError")
             ELSE IF ~HasKey(data, "meta") \/ ~HasKey(data, "response")
                  THEN Raise("JSONValidationError")
             ELSE IF ~IsList(Get(data, "response")) THEN Raise("JSONValidationError")
             ELSE Ok(data)

\* the publish_metric calls of read_json_from_s3: the file size after a read, and
\* Errors from log_error_with_context on a read or parse fault
ReadMetrics(content) ==
    IF content.kind = "absent" THEN <<"Errors">>
    ELSE IF content.kind = "text" THEN <<"InputFileSize", "Errors">>
    ELSE <<"InputFileSize">>

(* ------------------------------ flattener ----------------------------- *)

\* {**a, **b}
Merge(a, b) == [k \in DOMAIN a \cup DOMAIN b |-> IF k \in DOMAIN b THEN b[k] ELSE a[k]]

\* the keys of a row dict in insertion order: meta_data, base_row, then the three
\* operationOutcome fields
RowKeyOrder ==
    <<"s3Filename", "source", "approximateReceiveCount", "customerId", "patientId",
      "sourceFhirServer", "bundleResourceType", "responseTs", "latencyMs",
      "datastoreId", "requestResourceId", "statusCode", "operationOutcomeLocation",
      "operationOutcomeSeverity", "operationOutcomeCode", "operationOutcomeDetail">>

\* required_columns of flatten_json, in the order of the dict
required_columns ==
    <<"s3Filename", "source", "approximateReceiveCount", "customerId", "patientId",
      "sourceFhirServer", "requestResourceId", "bundleResourceType", "statusCode",
      "operationOutcomeLocation", "operationOutcomeSeverity", "operationOutcomeCode",
      "operationOutcomeDetail", "responseTs", "latencyMs", "datastoreId">>

\* schema_columns of write_parquet_to_s3
schema_columns ==
    <<"s3Filename", "source", "approximateReceiveCount", "customerId", "patientId",
      "sourceFhirServer", "requestResourceId", "bundleResourceType", "statusCode",
      "operationOutcomeLocation", "operationOutcomeSeverity", "operationOutcomeCode",
      "operationOutcomeDetail", "responseTs", "latencyMs", "datastoreId">>

Range(f) == {f[i] : i \in DOMAIN f}

\* the elements of seq that satisfy keep, in order
SelectCols(seq, keep) == SelectSeq(seq, LAMBDA c : c \in keep)

\* the fields of meta under the names meta gives them
MetaDataUnrenamed(meta, s3_filename, source) ==
    [s3Filename |-> JStr(s3_filename),
     source |-> source,
     approximateReceiveCount |->
         PyOr(Get(meta, "approximateReceiveCount"), Get(meta, "approxmiateReceiveCount")),
     organizationId |-> Get(meta, "organizationId"),
     patientId |-> Get(meta, "patientId"),
     sourceFhirServer |-> Get(meta, "sourceFhirServer"),
     bundleResourceType |-> Get(meta, "bundleResourceType"),
     responseTs |-> Get(meta, "responseTs"),
     latencyMs |-> Get(meta, "latencyMs"),
     datastoreId |-> Get(meta, "datastoreId")]

\* the shared metadata row
MetaData(meta, s3_filename, source) ==
    [s3Filename |-> JStr(s3_filename),
     source |-> source,
     approximateReceiveCount |->
         PyOr(Get(meta, "approximateReceiveCount"), Get(meta, "approxmiateReceiveCount")),
     customerId |-> Get(meta, "organizationId"),
     patientId |-> Get(meta, "patientId"),
     sourceFhirServer |-> Get(meta, "sourceFhirServer"),
     bundleResourceType |-> Get(meta, "bundleResourceType"),
     responseTs |-> Get(meta, "responseTs"),
     latencyMs |-> Get(meta, "latencyMs"),
     datastoreId |-> Get(meta, "datastoreId")]

\* a row with a severity of its own and the other operationOutcome fields null
NullOutcomeInformation(row) ==
    Merge(row, [operationOutcomeSeverity |-> JStr(<<"information">>),
                operationOutcomeCode |-> JNull,
                operationOutcomeDetail |-> JNull])

\* a row with the three operationOutcome fields null
NullOutcome(row) ==
    Merge(row, [operationOutcomeSeverity |-> JNull,
                operationOutcomeCode |-> JNull,
                operationOutcomeDetail |-> JNull])

\* the row of one issue with its details taken as they are
IssueRowRaw(row, issue) ==
    Merge(row, [operationOutcomeSeverity |-> Get(issue, "severity"),
                operationOutcomeCode |-> Get(issue, "code"),
                operationOutcomeDetail |-> GetOr(issue, "details", JObj(Empty))])

\* the row of one issue
IssueRow(row, issue) ==
    LET details == GetOr(issue, "details", JObj(Empty))
    IN  Merge(row, [operationOutcomeSeverity |-> Get(issue, "severity"),
                    operationOutcomeCode |-> Get(issue, "code"),
                    operationOutcomeDetail |->
                        IF IsDict(details) THEN Get(details, "text") ELSE details])

\* a range without its two ends
In2xxStrict(n) == 200 < n /\ n < 299

\* 200 <= status_code <= 299
In2xx(n) == 200 <= n /\ n <= 299

\* one pass of the loop over response_items: the rows the item appends; comparing a
\* status code that is no number raises TypeError, .get on an item or an issue that
\* is no object raises AttributeError
ItemRows(meta_data, response_item) ==
    IF ~IsDict(response_item) THEN Raise("AttributeError")
    ELSE
    LET status_code == Get(response_item, "statusCode")
        row == Merge(meta_data,
                     [requestResourceId |-> Get(response_item, "requestResourceId"),
                      statusCode |-> status_code,
                      operationOutcomeLocation |-> Get(response_item, "resourceLocation")])
        operation_outcome == Get(response_item, "operationOutcome")
        issues == GetOr(operation_outcome, "issue", JList(<<>>))
    IN  IF ~IsNull(status_code) /\ ~IsInt(status_code) THEN Raise("TypeError")
        ELSE IF ~IsNull(status_code) /\ In2xx(status_code[2]) THEN Ok(<<>>)
        ELSE IF Truthy(operation_outcome) /\ IsDict(operation_outcome)
        THEN IF Truthy(issues) /\ IsList(issues) /\ Len(issues[2]) > 0
             THEN IF \E k \in 1..Len(issues[2]) : ~IsDict(issues[2][k])
                  THEN Raise("AttributeError")
                  ELSE Ok([k \in 1..Len(issues[2]) |-> IssueRow(row, issues[2][k])])
             ELSE Ok(<<NullOutcome(row)>>)
        ELSE Ok(<<NullOutcome(row)>>)

\* flattened_rows after the loop over response_items, or the exception of the
\* first item that raises
FlattenRows(meta_data, response_items) ==
    With([k \in 1..Len(response_items) |-> ItemRows(meta_data, response_items[k])],
         LAMBDA each :
            LET raising == {k \in 1..Len(each) : each[k].raised # ""}
            IN  IF raising # {}
                THEN each[CHOOSE k \in raising : \A j \in raising : k <= j]
                ELSE Ok(Flat([k \in 1..Len(each) |-> each[k].val])))

\* pd.DataFrame(flattened_rows): the columns are the keys of the rows
DataFrame(rows) ==
    [columns |-> SelectCols(RowKeyOrder, UNION {DOMAIN rows[k] : k \in 1..Len(rows)}),
     rows |-> rows]

\* for col in cols: if col not in df.columns: df[col] = None
AddMissing(df, cols) ==
    With(df, LAMBDA d :
        [columns |-> d.columns \o SelectSeq(cols, LAMBDA c : c \notin Range(d.columns)),
         rows |-> [k \in 1..Len(d.rows) |->
                      [c \in DOMAIN d.rows[k] \cup (Range(cols) \ Range(d.columns)) |->
                          IF c \in DOMAIN d.rows[k] THEN d.rows[k][c] ELSE JNull]]])

\* pd.to_datetime(value, errors='coerce', utc=True) of one cell: a timestamp
\* for a string that parses (or a number), NaT otherwise
to_datetime(v) ==
    IF IsStr(v) /\ fromisoformat(ReplaceChar(v[2], "Z", <<"+", "0", "0", ":", "0", "0">>)).ok
    THEN <<"datetime", v[2]>>
    ELSE IF IsInt(v) THEN <<"datetime", v[2]>>
    ELSE JNull

\* df[col] = value: the same value in every row; a new column goes last
SetColumn(df, col, value) ==
    With(df, LAMBDA d :
        [columns |-> IF col \in Range(d.columns) THEN d.columns ELSE Append(d.columns, col),
         rows |-> [k \in 1..Len(d.rows) |-> Merge(d.rows[k], [c \in {col} |-> value])]])

\* the coercion of the responseTs column when it has a value that is not null
CoerceResponseTs(df) ==
    With(df, LAMBDA d :
        IF "responseTs" \in Range(d.columns)
           /\ \E k \in 1..Len(d.rows) : ~IsNull(d.rows[k]["responseTs"])
        THEN [columns |-> d.columns,
              rows |-> [k \in 1..Len(d.rows) |->
                           [d.rows[k] EXCEPT !["responseTs"] = to_datetime(@)]]]
        ELSE d)

\* a flattener that returns the frame without rows instead of raising
FlattenAllowEmpty(payload, s3_filename, source) ==
    IF ~Truthy(payload) \/ ~HasKey(payload, "meta") \/ ~HasKey(payload, "response")
    THEN Raise("ValueError")
    ELSE IF ~IsList(Get(payload, "response")) THEN Raise("ValueError")
    ELSE IF ~IsDict(Get(payload, "meta")) THEN Raise("AttributeError")
    ELSE
    With(FlattenRows(MetaData(Get(payload, "meta"), s3_filename, source),
                     Get(payload, "response")[2]),
         LAMBDA flattened :
            IF flattened.raised # "" THEN flattened
            ELSE Ok(CoerceResponseTs(AddMissing(DataFrame(flattened.val), required_columns))))

\* flatten_json: the frame of the rows of the items outside 2xx, or the exception
flatten_json(payload, s3_filename, source) ==
    IF ~Truthy(payload) \/ ~HasKey(payload, "meta") \/ ~HasKey(payload, "response")
    THEN Raise("ValueError")
    ELSE
    LET meta == Get(payload, "meta")
        response_items == Get(payload, "response")
    IN  IF ~IsList(response_items) THEN Raise("ValueError")
        ELSE IF ~IsDict(meta) THEN Raise("AttributeError")
        ELSE
        With(FlattenRows(MetaData(meta, s3_filename, source), response_items[2]),
             LAMBDA flattened :
                IF flattened.raised # "" THEN flattened
                ELSE IF flattened.val = <<>> THEN Raise("DataTransformationError")
                ELSE Ok(CoerceResponseTs(AddMissing(DataFrame(flattened.val), required_columns))))

(* ----------------------- partitioner, path builder -------------------- *)

\* a replacement that leaves the "Z" where it is
KeepZ == <<"Z">>

\* the replacement of "Z" in response_ts.replace('Z', '+00:00')
UtcOffset == <<"+", "0", "0", ":", "0", "0">>

\* len(value) of a list or a dict
PyLen(v) == IF IsList(v) THEN Len(v[2]) ELSE Cardinality(DOMAIN v[2])

\* add_partition_columns: date and hour of response_ts when it is a string that
\* parses, of the wall clock otherwise (AttributeError and ValueError are caught);
\* assigning a list of another length than the frame raises ValueError
add_partition_columns(df, source, response_ts, now) ==
    LET ts == IF Truthy(response_ts) /\ IsStr(response_ts)
              THEN fromisoformat(ReplaceChar(response_ts[2], "Z", UtcOffset))
              ELSE NoTime
        ingest_date == IF ts.ok THEN StrfDate(ts) ELSE StrfDate(now)
        hour == IF ts.ok THEN StrfHour(ts) ELSE StrfHour(now)
    IN  With(df, LAMBDA d :
            IF (IsList(source) \/ IsDict(source)) /\ PyLen(source) # Len(d.rows)
            THEN Raise("ValueError")
            ELSE Ok(SetColumn(
                        SetColumn(
                            [columns |-> d.columns,
                             rows |-> [k \in 1..Len(d.rows) |->
                                          [d.rows[k] EXCEPT !["source"] =
                                              IF IsList(source) THEN source[2][k] ELSE source]]],
                            "ingest_date", JStr(ingest_date)),
                        "hour", JStr(hour))))

RECURSIVE Decimal(_)
\* str(n) of a natural number
Decimal(n) == IF n < 10 THEN <<Digits[n + 1]>> ELSE Decimal(n \div 10) \o <<Digits[(n % 10) + 1]>>

RECURSIVE PyFormat(_)

\* repr(v) of an element of a list: a string in quotes
PyRepr(v) == IF IsStr(v) THEN <<"'">> \o v[2] \o <<"'">> ELSE PyFormat(v)

\* the text an f-string gives a value
PyFormat(v) ==
    CASE IsStr(v) -> v[2]
      [] IsNull(v) -> <<"N", "o", "n", "e">>
      [] IsInt(v) -> Decimal(v[2])
      [] IsList(v) -> <<"[">>
                      \o Flat([k \in 1..Len(v[2]) |->
                                  (IF k > 1 THEN <<",", " ">> ELSE <<>>) \o PyRepr(v[2][k])])
                      \o <<"]">>
      [] IsDict(v) -> <<"{", "}">>

\* a path builder that takes date and hour from the wall clock alone
PathFromClock(target_bucket, source, filename, response_ts, now) ==
    <<"s", "3", ":", "/", "/">> \o target_bucket
    \o <<"/", "d", "a", "t", "a", "/", "s", "o", "u", "r", "c", "e", "=">>
    \o PyFormat(source)
    \o <<"/", "i", "n", "g", "e", "s", "t", "_", "d", "a", "t", "e", "=">>
    \o StrfDate(now)
    \o <<"/", "h", "o", "u", "r", "=">> \o StrfHour(now)
    \o <<"/">> \o SplitextRoot(Basename(filename))
    \o <<".", "p", "a", "r", "q", "u", "e", "t">>

\* generate_output_path: the same derivation of date and hour, made again
generate_output_path(target_bucket, source, filename, response_ts, now) ==
    LET ts == IF Truthy(response_ts) /\ IsStr(response_ts)
              THEN fromisoformat(ReplaceChar(response_ts[2], "Z", UtcOffset))
              ELSE NoTime
        ingest_date == IF ts.ok THEN StrfDate(ts) ELSE StrfDate(now)
        hour == IF ts.ok THEN StrfHour(ts) ELSE StrfHour(now)
        base_name == SplitextRoot(Basename(filename))
        parquet_filename == base_name \o <<".", "p", "a", "r", "q", "u", "e", "t">>
    IN  <<"s", "3", ":", "/", "/">> \o target_bucket
        \o <<"/", "d", "a", "t", "a", "/", "s", "o", "u", "r", "c", "e", "=">>
        \o PyFormat(source)
        \o <<"/", "i", "n", "g", "e", "s", "t", "_", "d", "a", "t", "e", "=">>
        \o ingest_date
        \o <<"/", "h", "o", "u", "r", "=">> \o hour
        \o <<"/">> \o parquet_filename

(* --------------------------- idempotent writer ------------------------ *)

\* s3_path[5:].split('/', 1): the bucket and the key of a path
SplitS3Path(s3_path) ==
    LET rest == SubSeq(s3_path, 6, Len(s3_path))
        cut == IF Positions(rest, "/") = {} THEN 0
               ELSE CHOOSE i \in Positions(rest, "/") : \A j \in Positions(rest, "/") : i <= j
    IN  IF cut = 0 THEN <<rest, <<>>>>
        ELSE <<SubSeq(rest, 1, cut - 1), SubSeq(rest, cut + 1, Len(rest))>>

\* the outcomes of head_object: the object is there, a 404, any other error
HeadOutcome(store, s3_path, fault) ==
    IF fault THEN "error"
    ELSE IF SplitS3Path(s3_path) \in DOMAIN store THEN "found" ELSE "404"

\* an existence check that never finds the object
FileNeverExists(store, s3_path, fault) == FALSE

\* an existence check that takes an error of head_object for an object
FileExistsOnError(store, s3_path, fault) ==
    IF SubSeq(s3_path, 1, 5) # <<"s", "3", ":", "/", "/">> THEN FALSE
    ELSE HeadOutcome(store, s3_path, fault) # "404"

\* file_exists_in_s3: TRUE only when head_object returns
file_exists_in_s3(store, s3_path, fault) ==
    IF SubSeq(s3_path, 1, 5) # <<"s", "3", ":", "/", "/">> THEN FALSE
    ELSE IF HeadOutcome(store, s3_path, fault) = "found" THEN TRUE
    ELSE IF HeadOutcome(store, s3_path, fault) = "404" THEN FALSE
    ELSE FALSE

\* data_columns: the schema columns without the partition columns
data_columns == SelectCols(schema_columns, Range(schema_columns) \ {"source", "ingest_date", "hour"})

\* a writer that stores the whole frame
ParquetBodyAllColumns(df) ==
    With(AddMissing(df, schema_columns), LAMBDA full :
        [columns |-> full.columns, rows |-> full.rows])

\* df[data_columns] of the frame with its missing schema columns added
ParquetBody(df) ==
    With(AddMissing(df, schema_columns), LAMBDA full :
        [columns |-> data_columns,
         rows |-> [k \in 1..Len(full.rows) |->
                      [c \in Range(data_columns) |-> full.rows[k][c]]]])

\* a store that keeps the object it holds under a path
S3PutIfAbsent(store, s3_path, object) ==
    [p \in DOMAIN store \cup {SplitS3Path(s3_path)} |->
        IF p \in DOMAIN store THEN store[p] ELSE object]

\* the object store after wr.s3.to_parquet(path=s3_path): the object under the
\* path is the new one
S3Put(store, s3_path, object) ==
    [p \in DOMAIN store \cup {SplitS3Path(s3_path)} |->
        IF p = SplitS3Path(s3_path) THEN object ELSE store[p]]

(* ------------------------- the object stores -------------------------- *)

BucketLca == DefaultSourceBucket

BucketInbox == <<"i", "n", "b", "o", "x">>

KeyA == <<"i", "n", "/", "a", ".", "j", "s", "o", "n">>

KeyDupA == <<"u", "p", "/", "a", ".", "j", "s", "o", "n">>

\* the key of "dxa/b c.json" as the trigger record carries it
KeyBQuoted == <<"d", "x", "a", "/", "b", "+", "c", ".", "j", "s", "o", "n">>

KeyNull == <<"n", ".", "j", "s", "o", "n">>

KeyAll2xx == <<"o", "k", ".", "j", "s", "o", "n">>

KeyText == <<"t", ".", "j", "s", "o", "n">>

KeyShape == <<"s", ".", "j", "s", "o", "n">>

KeyList == <<"l", ".", "j", "s", "o", "n">>

KeyItem == <<"i", ".", "j", "s", "o", "n">>

KeyGone == <<"g", ".", "j", "s", "o", "n">>

KeyEmptySource == <<"e", ".", "j", "s", "o", "n">>

KeyListOne == <<"o", "n", "e", ".", "j", "s", "o", "n">>

KeyPlain == <<"p", ".", "j", "s", "o", "n">>

KeyDxaPersist ==
    <<"d", "x", "a", "-", "p", "e", "r", "s", "i", "s", "t", "/", "p", ".", "j", "s", "o", "n">>

BucketLcaOnly == <<"m", "y", "-", "l", "c", "a">>

SourceLcaPersist == <<"l", "c", "a", "-", "p", "e", "r", "s", "i", "s", "t">>

TsGood ==
    <<"2", "0", "2", "5", "-", "1", "2", "-", "0", "9", "T",
      "1", "8", ":", "3", "1", ":", "4", "5", "Z">>

TsBad == <<"n", "o", "t", "-", "a", "-", "d", "a", "t", "e">>

\* a response item
Item(status, id, outcome) ==
    JObj([statusCode |-> status, requestResourceId |-> JStr(<<id>>),
          resourceLocation |-> JStr(<<"Observation/1">>), operationOutcome |-> outcome])

\* an issue
Issue(severity, code, details) ==
    JObj([severity |-> JStr(<<severity>>), code |-> JStr(<<code>>), details |-> details])

TwoIssues ==
    JObj([issue |-> JList(<<Issue("error", "invalid", JObj([text |-> JStr(<<"Missing field">>)])),
                            Issue("warning", "processing", JStr(<<"plain">>))>>)])

\* the payload of the tests: a declared source, a timestamp, a 400 item with two
\* issues and an item that succeeded
PayloadA ==
    JObj([meta |-> JObj([source |-> JStr(SourceLcaPersist),
                         approximateReceiveCount |-> JInt(1),
                         organizationId |-> JStr(<<"customer1">>),
                         patientId |-> JStr(<<"PT-001">>),
                         responseTs |-> JStr(TsGood),
                         latencyMs |-> JInt(100)]),
          response |-> JList(<<Item(JInt(400), "r1", TwoIssues), Item(JInt(201), "r2", JNull)>>)])

\* no declared source and no timestamp
PayloadB ==
    JObj([meta |-> JObj([organizationId |-> JStr(<<"customer2">>)]),
          response |-> JList(<<Item(JInt(500), "r1", JNull)>>)])

\* a null source and a timestamp that does not parse
PayloadNull ==
    JObj([meta |-> JObj([source |-> JNull, responseTs |-> JStr(TsBad)]),
          response |-> JList(<<Item(JNull, "r1", JObj([issue |-> JList(<<>>)]))>>)])

\* a source that is the empty string
PayloadEmptySource ==
    JObj([meta |-> JObj([source |-> JStr(<<>>), responseTs |-> JStr(TsGood)]),
          response |-> JList(<<Item(JInt(404), "r1", TwoIssues)>>)])

\* a source that is a list of one, as long as the frame
PayloadListOne ==
    JObj([meta |-> JObj([source |-> JList(<<JStr(<<"a">>)>>), responseTs |-> JStr(TsGood)]),
          response |-> JList(<<Item(JInt(404), "r1", JNull)>>)])

\* every item succeeded
PayloadAll2xx ==
    JObj([meta |-> JObj([source |-> JStr(SourceLcaPersist)]),
          response |-> JList(<<Item(JInt(200), "r1", JNull), Item(JInt(299), "r2", JNull)>>)])

\* a source that is a list of three
PayloadList ==
    JObj([meta |-> JObj([source |-> JList(<<JStr(<<"a">>), JStr(<<"b">>), JStr(<<"c">>)>>)]),
          response |-> JList(<<Item(JInt(404), "r1", JNull)>>)])

\* a response item that is no object
PayloadItem ==
    JObj([meta |-> JObj([source |-> JStr(SourceLcaPersist)]),
          response |-> JList(<<JStr(<<"oops">>)>>)])

\* the source store: the objects the trigger records name
SourceObjects ==
    (<<BucketLca, KeyA>> :> JsonText(PayloadA))
    @@ (<<BucketLca, KeyDupA>> :> JsonText(PayloadA))
    @@ (<<BucketInbox, unquote_plus(KeyBQuoted)>> :> JsonText(PayloadB))
    @@ (<<BucketLca, KeyNull>> :> JsonText(PayloadNull))
    @@ (<<BucketLca, KeyAll2xx>> :> JsonText(PayloadAll2xx))
    @@ (<<BucketLca, KeyText>> :> NotJson)
    @@ (<<BucketLca, KeyShape>> :> JsonText(JObj([meta |-> JObj(Empty)])))
    @@ (<<BucketLca, KeyList>> :> JsonText(PayloadList))
    @@ (<<BucketLca, KeyItem>> :> JsonText(PayloadItem))
    @@ (<<BucketLca, KeyEmptySource>> :> JsonText(PayloadEmptySource))
    @@ (<<BucketLca, KeyListOne>> :> JsonText(PayloadListOne))
    @@ (<<BucketLca, KeyPlain>> :> JsonText(PayloadB))
    @@ (<<BucketInbox, KeyPlain>> :> JsonText(PayloadB))
    @@ (<<BucketInbox, KeyDxaPersist>> :> JsonText(PayloadB))
    @@ (<<BucketLcaOnly, KeyPlain>> :> JsonText(PayloadB))
    @@ (<<BucketLcaOnly, KeyDxaPersist>> :> JsonText(PayloadB))

\* s3_client.get_object(Bucket, Key): the content, or nothing under the key
GetObject(bucket, key) ==
    IF <<bucket, key>> \in DOMAIN SourceObjects THEN SourceObjects[<<bucket, key>>] ELSE NoObject

\* a trigger record naming bucket and (quoted) key
S3Record(bucket, key) ==
    JObj([s3 |-> JObj([bucket |-> JObj([name |-> JStr(bucket)]),
                       object |-> JObj([key |-> JStr(key)])])])

\* a trigger record without the s3 entry
BadRecord == JObj([eventSource |-> JStr(<<"aws:sns">>)])

\* trigger records that fail, one for each step that can: extract, read, parse,
\* validate, flatten, partition
FaultRecords ==
    {BadRecord, S3Record(BucketLca, KeyGone), S3Record(BucketLca, KeyText),
     S3Record(BucketLca, KeyShape), S3Record(BucketLca, KeyAll2xx),
     S3Record(BucketLca, KeyList)}

\* trigger records for every way a record can end: written, skipped as a
\* duplicate (the same record again), failed at each step
TriggerRecords == FaultRecords \cup {S3Record(BucketLca, KeyA)}

\* trigger records for the two derivations of date and hour: from the timestamp
\* of the payload, from the wall clock
ClockRecords == {S3Record(BucketLca, KeyA), S3Record(BucketInbox, KeyBQuoted)}

\* the batches of at most n records drawn from rs
Batches(rs, n) == UNION {[1..k -> rs] : k \in 0..n}

\* the events over the records rs: a batch under Records, no Records entry, a
\* null Records entry, an event that is no object
EventsOver(rs, n) ==
    {JObj([Records |-> JList(b)]) : b \in Batches(rs, n)}
    \cup {JObj(Empty), JObj([Records |-> JNull]), JList(<<>>)}

Events == EventsOver(TriggerRecords, MaxRecords)

\* the values of one of the two settings
EnvValues == {Unset, <<"set", <<>>>>, <<"set", <<"t", "g", "t">>>>}

Environments == [{"SOURCE_BUCKET", "TARGET_BUCKET"} -> EnvValues]

(* ----------------------------- the state ------------------------------ *)

\* the invocations of lambda_handler a behaviour may hold
Invocations == {1, 2}

VARIABLES
    env,            \* os.environ: SOURCE_BUCKET and TARGET_BUCKET
    now,            \* the wall clock, datetime.now(timezone.utc)
    ticks,          \* the hours the clock has advanced
    sinkUp,         \* whether cloudwatch.put_metric_data succeeds
    cloudwatch,     \* the data points the metrics sink holds, by metric name
    target,         \* the target object store: <<bucket, key>> -> object
    pc,             \* where each invocation stands
    event,          \* the event each invocation was given
    config,         \* the result of get_bucket_config
    idx,            \* the position in Records (from 1)
    results,        \* results
    record_errors,  \* record_errors
    cur,            \* the locals of the record in hand
    response,       \* the value lambda_handler returned
    s3calls,        \* the calls each invocation made on the object stores
    published,      \* the calls of publish_metric each invocation made
    preceded,       \* the invocations that had returned when each one began
    arg,            \* the arguments of a function that is applied on its own
    out             \* what that function returned or raised

vars ==
    <<env, now, ticks, sinkUp, cloudwatch, target, pc, event, config, idx, results,
      record_errors, cur, response, s3calls, published, preceded, arg, out>>

\* the function that is applied on its own
harness == <<arg, out>>

\* the start of the wall clock: the last hour of a year
StartClock == [ok |-> TRUE, year |-> 2025, month |-> 12, day |-> 31, hour |-> 23]

\* the clock one hour later
NextHour(t) ==
    IF t.hour < 23 THEN [t EXCEPT !.hour = t.hour + 1]
    ELSE IF t.day < DaysIn(t.year, t.month) THEN [t EXCEPT !.hour = 0, !.day = t.day + 1]
    ELSE IF t.month < 12 THEN [t EXCEPT !.hour = 0, !.day = 1, !.month = t.month + 1]
    ELSE [t EXCEPT !.hour = 0, !.day = 1, !.month = 1, !.year = t.year + 1]

NoLocals == [bucket |-> JNull, key |-> JNull]

NoStore == [p \in {} |-> JNull]

NoErrors == [c \in {} |-> 0]

\* config before get_bucket_config has returned
NoConfig == [loaded |-> FALSE]

\* the value of an invocation that has not returned
NoResponse == [returned |-> FALSE]

\* no arguments; the outcome before the function is applied
NoArg == [given |-> FALSE]

NoOutcome == [raised |-> "", val |-> JNull, returned |-> FALSE]

\* no invocation has begun
Idle ==
    /\ now = StartClock
    /\ ticks = 0
    /\ cloudwatch = NoMetrics
    /\ target = NoStore
    /\ pc = [i \in Invocations |-> "idle"]
    /\ event = [i \in Invocations |-> JNull]
    /\ config = [i \in Invocations |-> NoConfig]
    /\ idx = [i \in Invocations |-> 0]
    /\ results = [i \in Invocations |-> <<>>]
    /\ record_errors = [i \in Invocations |-> NoErrors]
    /\ cur = [i \in Invocations |-> NoLocals]
    /\ response = [i \in Invocations |-> NoResponse]
    /\ s3calls = [i \in Invocations |-> <<>>]
    /\ published = [i \in Invocations |-> NoMetrics]
    /\ preceded = [i \in Invocations |-> {}]

Init ==
    /\ env \in Environments
    /\ sinkUp \in BOOLEAN
    /\ Idle
    /\ arg = NoArg
    /\ out = NoOutcome

(* --------------------------- the orchestrator ------------------------- *)

\* event.get('Records', [])
Records(ev) == GetOr(ev, "Records", JList(<<>>))

\* the trigger records the loop goes through
RecordsOf(ev) == IF IsDict(ev) /\ IsList(Records(ev)) THEN Records(ev)[2] ELSE <<>>

\* a call of publish_metric that returns only when the sink is up
PublishWhenUp(i, names) ==
    /\ sinkUp
    /\ published' = [published EXCEPT ![i] = publish_metric(@, names, TRUE)]
    /\ cloudwatch' = publish_metric(cloudwatch, names, TRUE)

\* a call of publish_metric for each name, by invocation i
Publish(i, names) ==
    /\ published' = [published EXCEPT ![i] = publish_metric(@, names, TRUE)]
    /\ cloudwatch' = publish_metric(cloudwatch, names, sinkUp)

\* outer handlers that let every exception but ConfigurationError through to the
\* caller
FatalResponseRaise(raised) ==
    IF raised = "ConfigurationError"
    THEN [statusCode |-> 500,
          body |-> [message |-> "Configuration error", error_category |-> "ConfigurationError"]]
    ELSE [raised |-> raised]

\* the 500 result of the two outer handlers: the ConfigurationError handler and
\* the handler of every other exception
FatalResponse(raised) ==
    [statusCode |-> 500,
     body |-> IF raised = "ConfigurationError"
              THEN [message |-> "Configuration error", error_category |-> "ConfigurationError"]
              ELSE [message |-> "Internal error", error_category |-> "UnknownError"]]

\* outer handlers that log the exception and go on to the loop with the default
\* buckets
FatalContinue(i, raised, names) ==
    /\ Publish(i, names)
    /\ config' = [config EXCEPT ![i] = [source_bucket |-> DefaultSourceBucket,
                                        target_bucket |-> DefaultTargetBucket]]
    /\ idx' = [idx EXCEPT ![i] = 1]
    /\ pc' = [pc EXCEPT ![i] = "loop"]
    /\ UNCHANGED response

\* the outer handlers: the metrics of the path to them, the 500 result, return
Fatal(i, raised, names) ==
    /\ Publish(i, names)
    /\ response' = [response EXCEPT ![i] = FatalResponse(raised)]
    /\ pc' = [pc EXCEPT ![i] = "done"]
    /\ UNCHANGED <<config, idx>>

\* the configuration is loaded: on to the first record
Enter(i, cfg) ==
    /\ Publish(i, <<"Invocations">>)
    /\ config' = [config EXCEPT ![i] = cfg]
    /\ idx' = [idx EXCEPT ![i] = 1]
    /\ pc' = [pc EXCEPT ![i] = "loop"]
    /\ UNCHANGED response

\* lambda_handler up to the loop: the count of the records for the log (.get on
\* an event that is no object raises AttributeError, len of a Records that is no
\* list raises TypeError), the Invocations metric, then the configuration, whose
\* exception is logged, counted and raised again; each exception goes to the
\* outer handlers
Start(i, ev) ==
    /\ pc[i] = "idle"
    /\ event' = [event EXCEPT ![i] = ev]
    /\ preceded' = [preceded EXCEPT ![i] = {j \in Invocations : pc[j] = "done"}]
    /\ IF ~IsDict(ev) THEN Fatal(i, "AttributeError", <<"Errors", "FatalErrors">>)
       ELSE IF ~IsList(Records(ev)) THEN Fatal(i, "TypeError", <<"Errors", "FatalErrors">>)
       ELSE IF get_bucket_config(env).raised # ""
       THEN Fatal(i, get_bucket_config(env).raised,
                  <<"Invocations", "Errors", "FatalErrors", "Errors", "FatalErrors">>)
       ELSE Enter(i, get_bucket_config(env).val)
    /\ UNCHANGED <<env, now, ticks, sinkUp, target, results, record_errors, cur, s3calls>>
    /\ UNCHANGED harness

\* record['s3'], ['bucket']['name'], ['object']['key']: KeyError on a missing key;
\* bucket is assigned before the key is looked up
Extract(record) ==
    IF ~HasKey(record, "s3") THEN [raised |-> "KeyError", bucket |-> JNull, key |-> JNull]
    ELSE LET s3_info == Get(record, "s3")
         IN  IF ~HasKey(s3_info, "bucket") \/ ~HasKey(Get(s3_info, "bucket"), "name")
             THEN [raised |-> "KeyError", bucket |-> JNull, key |-> JNull]
             ELSE LET bucket == Get(Get(s3_info, "bucket"), "name")
                  IN  IF ~HasKey(s3_info, "object") \/ ~HasKey(Get(s3_info, "object"), "key")
                      THEN [raised |-> "KeyError", bucket |-> bucket, key |-> JNull]
                      ELSE [raised |-> "", bucket |-> bucket,
                            key |-> JStr(unquote_plus(Get(Get(s3_info, "object"), "key")[2]))]

Lca == <<"l", "c", "a">>

Dxa == <<"d", "x", "a">>

SourceDxaPersist == <<"d", "x", "a", "-", "p", "e", "r", "s", "i", "s", "t">>

\* the source tag: meta.source when meta has the key, else the first of
\* lca-persist, dxa-persist, lca, dxa found in the bucket name or the key
ResolveSource(meta, bucket, key) ==
    IF HasKey(meta, "source") THEN Get(meta, "source")
    ELSE IF Contains(bucket, SourceLcaPersist) \/ Contains(key, SourceLcaPersist)
         THEN JStr(SourceLcaPersist)
    ELSE IF Contains(bucket, SourceDxaPersist) \/ Contains(key, SourceDxaPersist)
         THEN JStr(SourceDxaPersist)
    ELSE IF Contains(bucket, Lca) \/ Contains(key, Lca) THEN JStr(Lca)
    ELSE IF Contains(bucket, Dxa) \/ Contains(key, Dxa) THEN JStr(Dxa)
    ELSE JStr(<<"u", "n", "k", "n", "o", "w", "n">>)

\* 'source' in meta for a meta that is no object: TypeError for null and numbers,
\* a substring test for a string, membership for a list
SourceIn(meta) ==
    IF IsNull(meta) \/ IsInt(meta) THEN Raise("TypeError")
    ELSE IF IsStr(meta) THEN Ok(Contains(meta[2], <<"s", "o", "u", "r", "c", "e">>))
    ELSE Ok(\E k \in 1..Len(meta[2]) : meta[2][k] = JStr(<<"s", "o", "u", "r", "c", "e">>))

\* the body of the loop up to and including add_partition_columns, for one
\* trigger record at wall-clock time t: the exception that ends it (raised), the
\* publish_metric calls made before the handler's except clause, whether
\* get_object was called, and the locals
ProcessRecord(record, t) ==
    LET ex == Extract(record)
        none == [raised |-> "", bucket |-> ex.bucket, key |-> ex.key, metrics |-> <<>>,
                 got |-> FALSE, df |-> JNull, source |-> JNull, response_ts |-> JNull]
    IN  IF ex.raised # "" THEN [none EXCEPT !.raised = ex.raised]
        ELSE
        LET content == GetObject(ex.bucket[2], ex.key[2])
            read == read_json_from_s3(content)
            after == [none EXCEPT !.got = TRUE, !.metrics = ReadMetrics(content)]
        IN  IF read.raised # "" THEN [after EXCEPT !.raised = read.raised]
            ELSE
            LET meta == Get(read.val, "meta")
                isin == IF IsDict(meta) THEN Ok(HasKey(meta, "source")) ELSE SourceIn(meta)
            IN  IF isin.raised # "" THEN [after EXCEPT !.raised = isin.raised]
                ELSE IF ~IsDict(meta) /\ isin.val THEN [after EXCEPT !.raised = "TypeError"]
                ELSE
                LET source == IF IsDict(meta) THEN ResolveSource(meta, ex.bucket[2], ex.key[2])
                              ELSE ResolveSource(JObj(Empty), ex.bucket[2], ex.key[2])
                    response_ts == Get(meta, "responseTs")
                IN  With(flatten_json(read.val, Basename(ex.key[2]), source), LAMBDA flat :
                    IF flat.raised = "DataTransformationError"
                    THEN [after EXCEPT !.raised = flat.raised,
                                       !.metrics = Append(@, "Errors"), !.source = source]
                    ELSE IF flat.raised # ""
                    THEN [after EXCEPT !.raised = flat.raised, !.source = source]
                    ELSE
                    With(add_partition_columns(flat.val, source, response_ts, t), LAMBDA part :
                        IF part.raised # ""
                        THEN [after EXCEPT !.raised = "PartitioningError",
                                           !.metrics = Append(@, "Errors"),
                                           !.source = source]
                        ELSE [after EXCEPT !.df = part.val, !.source = source,
                                           !.response_ts = response_ts]))

Unknown == JStr(<<"u", "n", "k", "n", "o", "w", "n">>)

\* the class of the exception taken for its category
CategoryAsRaised(raised) == raised

\* the category the two except clauses of the loop give an exception
CategoryOf(raised) == IF raised \in ClassifiedErrors THEN raised ELSE "UnknownError"

\* an entry that puts every exception under UnknownError
ErrorEntryUnknown(bucket, key, raised) ==
    [status |-> "error",
     source_bucket |-> PyOr(bucket, Unknown),
     source_key |-> PyOr(key, Unknown),
     error_type |-> raised,
     error_category |-> "UnknownError"]

\* the entry results gets for a record that raised
ErrorEntry(bucket, key, raised) ==
    [status |-> "error",
     source_bucket |-> PyOr(bucket, Unknown),
     source_key |-> PyOr(key, Unknown),
     error_type |-> raised,
     error_category |-> CategoryOf(raised)]

\* a success entry that reports no rows
SuccessEntryNoRows(bucket, key, output_path, df) ==
    [status |-> "success",
     source_bucket |-> bucket,
     source_key |-> key,
     output_path |-> output_path,
     records_processed |-> 0]

\* the entry results gets for a record that went through
SuccessEntry(bucket, key, output_path, df) ==
    [status |-> "success",
     source_bucket |-> bucket,
     source_key |-> key,
     output_path |-> output_path,
     records_processed |-> Len(df.rows)]

\* a counter that puts every error under UnknownError
CountErrorUnknown(errors, c) ==
    [k \in DOMAIN errors \cup {"UnknownError"} |->
        (IF k \in DOMAIN errors THEN errors[k] ELSE 0)
        + (IF k = "UnknownError" THEN 1 ELSE 0)]

\* record_errors[c] = record_errors.get(c, 0) + 1
CountError(errors, c) ==
    [k \in DOMAIN errors \cup {c} |-> (IF k \in DOMAIN errors THEN errors[k] ELSE 0)
                                      + (IF k = c THEN 1 ELSE 0)]

\* an except clause that logs and counts the error and appends no entry
FailNoEntry(i, bucket, key, raised, metrics) ==
    /\ Publish(i, Append(metrics, "Errors"))
    /\ record_errors' = [record_errors EXCEPT ![i] = CountError(@, CategoryOf(raised))]
    /\ UNCHANGED results

\* the except clauses of the loop: log the error, count it, append the entry
Fail(i, bucket, key, raised, metrics) ==
    /\ Publish(i, Append(metrics, "Errors"))
    /\ record_errors' = [record_errors EXCEPT ![i] = CountError(@, CategoryOf(raised))]
    /\ results' = [results EXCEPT ![i] = Append(@, ErrorEntry(bucket, key, raised))]

\* the end of one pass of the loop
NextRecord(i) ==
    /\ idx' = [idx EXCEPT ![i] = @ + 1]
    /\ pc' = [pc EXCEPT ![i] = "loop"]
    /\ cur' = [cur EXCEPT ![i] = NoLocals]

\* one call on an object store: the operation, the record it was made for, the
\* bucket and key, and how it ended
Call(op, at, where, outcome) == [op |-> op, idx |-> at, where |-> where, outcome |-> outcome]

\* what the loop does with the outcome p of ProcessRecord: the except clauses
\* when it raised, on to generate_output_path when it did not
ReadDone(i, p) ==
    /\ s3calls' = [s3calls EXCEPT ![i] =
                     IF p.got
                     THEN Append(@, Call("get", idx[i], <<p.bucket[2], p.key[2]>>,
                                         IF p.raised = "S3ReadError" THEN "error"
                                         ELSE "found"))
                     ELSE @]
    /\ IF p.raised # ""
       THEN /\ Fail(i, p.bucket, p.key, p.raised, p.metrics)
            /\ NextRecord(i)
       ELSE /\ Publish(i, p.metrics)
            /\ cur' = [cur EXCEPT ![i] =
                         [bucket |-> p.bucket, key |-> p.key, df |-> p.df,
                          source |-> p.source, response_ts |-> p.response_ts]]
            /\ pc' = [pc EXCEPT ![i] = "path"]
            /\ UNCHANGED <<idx, results, record_errors>>
    /\ UNCHANGED <<env, now, ticks, sinkUp, target, event, config, response, preceded>>
    /\ UNCHANGED harness

\* the loop body from the trigger record to the partition columns
ReadStep(i) ==
    /\ pc[i] = "loop"
    /\ idx[i] <= Len(RecordsOf(event[i]))
    /\ \E p \in {ProcessRecord(RecordsOf(event[i])[idx[i]], now)} : ReadDone(i, p)

\* a writer that goes to the write without the existence check
NoExistenceCheck(i, output_path, fault) ==
    /\ cur' = [cur EXCEPT ![i] =
                 [bucket |-> cur[i].bucket, key |-> cur[i].key,
                  df |-> cur[i].df, source |-> cur[i].source,
                  response_ts |-> cur[i].response_ts,
                  output_path |-> output_path]]
    /\ pc' = [pc EXCEPT ![i] = "write"]
    /\ UNCHANGED <<idx, results, cloudwatch, published, s3calls>>
    /\ UNCHANGED <<env, now, ticks, sinkUp, target, event, config, record_errors, response,
                   preceded>>
    /\ UNCHANGED harness

\* the existence check of write_parquet_to_s3 on output_path, with or without
\* a fault of head_object: an object that is found ends the record as a success
\* without a write
ExistenceCheck(i, output_path, fault) ==
    /\ s3calls' = [s3calls EXCEPT ![i] =
                     Append(@, Call("head", idx[i], SplitS3Path(output_path),
                                    HeadOutcome(target, output_path, fault)))]
    /\ IF file_exists_in_s3(target, output_path, fault)
       THEN /\ Publish(i, <<"DuplicateFileSkipped">>)
            /\ results' = [results EXCEPT ![i] =
                             Append(@, SuccessEntry(cur[i].bucket, cur[i].key,
                                                    output_path, cur[i].df))]
            /\ NextRecord(i)
       ELSE /\ cur' = [cur EXCEPT ![i] =
                         [bucket |-> cur[i].bucket, key |-> cur[i].key,
                          df |-> cur[i].df, source |-> cur[i].source,
                          response_ts |-> cur[i].response_ts,
                          output_path |-> output_path]]
            /\ pc' = [pc EXCEPT ![i] = "write"]
            /\ UNCHANGED <<idx, results, cloudwatch, published>>
    /\ UNCHANGED <<env, now, ticks, sinkUp, target, event, config, record_errors, response,
                   preceded>>
    /\ UNCHANGED harness

\* generate_output_path, then the existence check of write_parquet_to_s3
PathStep(i) ==
    /\ pc[i] = "path"
    /\ \E fault \in BOOLEAN,
          output_path \in {generate_output_path(config[i].target_bucket, cur[i].source,
                                                cur[i].key[2], cur[i].response_ts, now)} :
        ExistenceCheck(i, output_path, fault)

\* the object wr.s3.to_parquet stores: the body, and who wrote it
Parquet(df, i, at) == [body |-> ParquetBody(df), writer |-> <<i, at>>]

\* the write of write_parquet_to_s3: the object is stored, or to_parquet raises
\* and the record fails with S3WriteError
WriteStep(i) ==
    /\ pc[i] = "write"
    /\ \E fault \in BOOLEAN :
        /\ s3calls' = [s3calls EXCEPT ![i] =
                         Append(@, Call("put", idx[i], SplitS3Path(cur[i].output_path),
                                        IF fault THEN "error" ELSE "stored"))]
        /\ IF fault
           THEN /\ Fail(i, cur[i].bucket, cur[i].key, "S3WriteError", <<"Errors">>)
                /\ UNCHANGED target
           ELSE /\ target' = S3Put(target, cur[i].output_path, Parquet(cur[i].df, i, idx[i]))
                /\ Publish(i, <<"ParquetWriteDuration", "RecordsProcessed", "ParquetFilesWritten">>)
                /\ results' = [results EXCEPT ![i] =
                                 Append(@, SuccessEntry(cur[i].bucket, cur[i].key,
                                                        cur[i].output_path, cur[i].df))]
                /\ UNCHANGED record_errors
    /\ NextRecord(i)
    /\ UNCHANGED <<env, now, ticks, sinkUp, event, config, response, preceded>>
    /\ UNCHANGED harness

\* a count that takes every entry, whatever its status
CountStatusAny(rs, status) == Len(rs)

\* sum(1 for r in results if r['status'] == status)
CountStatus(rs, status) == Cardinality({k \in 1..Len(rs) : rs[k].status = status})

\* the ErrorsByCategory metric, once for each key of record_errors
CategoryMetrics(errors) == [k \in 1..Cardinality(DOMAIN errors) |-> "ErrorsByCategory"]

\* a result after the loop that is 207 only for a mixed batch and 500 when every
\* record failed
BatchResponseMixed(rs, errors) ==
    [statusCode |-> IF CountStatus(rs, "error") = 0 THEN 200
                    ELSE IF CountStatus(rs, "success") = 0 THEN 500 ELSE 207,
     body |-> [message |-> <<"Processed", CountStatus(rs, "success"), CountStatus(rs, "error")>>,
               error_breakdown |-> errors,
               results |-> rs]]

\* the result after the loop
BatchResponse(rs, errors) ==
    [statusCode |-> IF CountStatus(rs, "error") = 0 THEN 200 ELSE 207,
     body |-> [message |-> <<"Processed", CountStatus(rs, "success"), CountStatus(rs, "error")>>,
               error_breakdown |-> errors,
               results |-> rs]]

\* lambda_handler after the loop: the counts, the metrics and the result
Finish(i) ==
    /\ pc[i] = "loop"
    /\ idx[i] > Len(RecordsOf(event[i]))
    /\ Publish(i, <<"FilesProcessed">>
                  \o (IF CountStatus(results[i], "error") > 0 THEN <<"FilesFailed">> ELSE <<>>)
                  \o CategoryMetrics(record_errors[i])
                  \o <<"InvocationDuration">>)
    /\ response' = [response EXCEPT ![i] = BatchResponse(results[i], record_errors[i])]
    /\ pc' = [pc EXCEPT ![i] = "done"]
    /\ UNCHANGED <<env, now, ticks, sinkUp, target, event, config, idx, results,
                   record_errors, cur, s3calls, preceded>>
    /\ UNCHANGED harness

\* the wall clock passes into the next hour, at the points where the step that
\* follows reads it
Tick ==
    /\ ticks < MaxTicks
    /\ \E i \in Invocations :
        \/ pc[i] = "loop" /\ idx[i] <= Len(RecordsOf(event[i]))
        \/ pc[i] = "path"
    /\ now' = NextHour(now)
    /\ ticks' = ticks + 1
    /\ UNCHANGED <<env, sinkUp, cloudwatch, target, pc, event, config, idx, results,
                   record_errors, cur, response, s3calls, published, preceded>>
    /\ UNCHANGED harness

\* the trigger source invokes the handler with an event
Invoke(i) == \E ev \in Events : Start(i, ev)

\* one invocation of lambda_handler, from the event to the result
Next ==
    \/ Invoke(1)
    \/ ReadStep(1)
    \/ PathStep(1)
    \/ WriteStep(1)
    \/ Finish(1)

Spec == Init /\ [][Next]_vars

\* the events that are delivered twice: one record each
RedeliveredEvents == {JObj([Records |-> JList(<<r>>)]) : r \in ClockRecords}

\* the trigger source delivers an event to the first invocation
Deliver(i) == \E ev \in RedeliveredEvents : Start(i, ev)

\* the trigger source delivers the event of invocation j again, to invocation i
Redeliver(i, j) == pc[j] # "idle" /\ Start(i, event[j])

\* two invocations of lambda_handler on the same event, one after the other or
\* at the same time, while the clock advances
NextRedelivery ==
    \/ Deliver(1)
    \/ Redeliver(2, 1)
    \/ \E i \in Invocations : ReadStep(i)
    \/ \E i \in Invocations : PathStep(i)
    \/ \E i \in Invocations : WriteStep(i)
    \/ \E i \in Invocations : Finish(i)
    \/ Tick

SpecRedelivery == Init /\ [][NextRedelivery]_vars

\* trigger records for the ways a source is resolved and for the exceptions
\* without a category: a source taken from the key, a null source, an empty
\* source, a response item that is no object, a record without s3
PayloadRecords ==
    {S3Record(BucketInbox, KeyBQuoted), S3Record(BucketLca, KeyNull),
     S3Record(BucketLca, KeyEmptySource), S3Record(BucketLca, KeyItem), BadRecord}

\* the trigger source invokes the handler with an event over these records
InvokePayloads(i) == \E ev \in EventsOver(PayloadRecords, MaxRecords) : Start(i, ev)

NextPayloads ==
    \/ InvokePayloads(1)
    \/ ReadStep(1)
    \/ PathStep(1)
    \/ WriteStep(1)
    \/ Finish(1)

SpecPayloads == Init /\ [][NextPayloads]_vars

\* trigger records for keys that differ in their directory only: the payload of
\* the tests under in/a.json and under up/a.json, and a payload under another
\* name
BasenameRecords ==
    {S3Record(BucketLca, KeyA), S3Record(BucketLca, KeyDupA),
     S3Record(BucketInbox, KeyBQuoted)}

\* the trigger source invokes the handler with an event over these records
InvokeBasename(i) == \E ev \in EventsOver(BasenameRecords, MaxRecords) : Start(i, ev)

NextBasename ==
    \/ InvokeBasename(1)
    \/ ReadStep(1)
    \/ PathStep(1)
    \/ WriteStep(1)
    \/ Finish(1)

SpecBasename == Init /\ [][NextBasename]_vars

\* trigger records for every way the source is resolved: a declared source that
\* is a string, empty, null, a list; no declared source and lca-persist in the
\* bucket, dxa-persist in the key, lca in the bucket with dxa-persist in the
\* key, lca in the bucket, dxa in the key, none of them
SourceRecords ==
    {S3Record(BucketLca, KeyA), S3Record(BucketLca, KeyEmptySource),
     S3Record(BucketLca, KeyNull), S3Record(BucketLca, KeyListOne),
     S3Record(BucketLca, KeyPlain), S3Record(BucketInbox, KeyDxaPersist),
     S3Record(BucketLcaOnly, KeyDxaPersist), S3Record(BucketLcaOnly, KeyPlain),
     S3Record(BucketInbox, KeyBQuoted), S3Record(BucketInbox, KeyPlain)}

\* most trigger records of an event over these records: the source is resolved
\* for each record on its own
MaxSourceBatch == 1

\* the trigger source invokes the handler with an event over these records
InvokeSource(i) == \E ev \in EventsOver(SourceRecords, MaxSourceBatch) : Start(i, ev)

NextSource ==
    \/ InvokeSource(1)
    \/ ReadStep(1)
    \/ PathStep(1)
    \/ WriteStep(1)
    \/ Finish(1)

SpecSource == Init /\ [][NextSource]_vars

\* trigger records for the calls of publish_metric: a record that fails before
\* the read, a payload that is read and written (or skipped, or fails at the
\* write), a payload without rows
SinkRecords ==
    {BadRecord, S3Record(BucketLca, KeyA), S3Record(BucketLca, KeyAll2xx)}

\* the trigger source invokes the handler with an event over these records
InvokeSink(i) == \E ev \in EventsOver(SinkRecords, MaxRecords) : Start(i, ev)

\* cloudwatch.put_metric_data begins or ceases to raise while the invocation
\* runs
SinkFlips ==
    /\ pc[1] \notin {"idle", "done"}
    /\ sinkUp' = ~sinkUp
    /\ UNCHANGED <<env, now, ticks, cloudwatch, target, pc, event, config, idx, results,
                   record_errors, cur, response, s3calls, published, preceded>>
    /\ UNCHANGED harness

\* one invocation of lambda_handler against a metrics sink that fails on any
\* of the steps
NextSink ==
    \/ InvokeSink(1)
    \/ ReadStep(1)
    \/ PathStep(1)
    \/ WriteStep(1)
    \/ Finish(1)
    \/ SinkFlips

SpecSink == Init /\ [][NextSink]_vars

(* ----------------------- flatten_json on its own ---------------------- *)

\* most response items of a payload given to flatten_json
MaxItems == 2

\* the status codes of a response item: none, null, and the integers at and
\* around the two ends of the 2xx range
StatusChoices ==
    {<<"absent">>, JNull, JInt(199), JInt(200), JInt(250), JInt(299), JInt(300), JInt(404)}

\* the operationOutcome of a response item: null, no issue, two issues
OutcomeChoices == {JNull, JObj([issue |-> JList(<<>>)]), TwoIssues}

\* the response item at position k of a payload; requestResourceId is k
ResponseItem(status, k, outcome) ==
    JObj(Merge([requestResourceId |-> JInt(k), operationOutcome |-> outcome],
               IF status = <<"absent">> THEN Empty ELSE [statusCode |-> status]))

\* the arguments of flatten_json: payloads of at most n response items
FlattenArgs(n) ==
    {[payload |-> JObj([meta |-> JObj([organizationId |-> JStr(<<"customer1">>)]),
                        response |-> JList([k \in 1..Len(c) |->
                                               ResponseItem(c[k][1], k, c[k][2])])]),
      s3_filename |-> <<"a", ".", "j", "s", "o", "n">>,
      source |-> JStr(Lca)] :
        c \in UNION {[1..m -> StatusChoices \X OutcomeChoices] : m \in 0..n}}

InitFlatten ==
    /\ env = [v \in {"SOURCE_BUCKET", "TARGET_BUCKET"} |-> Unset]
    /\ sinkUp = TRUE
    /\ Idle
    /\ arg \in FlattenArgs(MaxItems)
    /\ out = NoOutcome

\* flatten_json(payload, s3_filename, source)
ApplyFlatten ==
    /\ ~out.returned
    /\ \E o \in {flatten_json(arg.payload, arg.s3_filename, arg.source)} :
          out' = [raised |-> o.raised, val |-> o.val, returned |-> TRUE]
    /\ UNCHANGED <<env, now, ticks, sinkUp, cloudwatch, target, pc, event, config, idx,
                   results, record_errors, cur, response, s3calls, published, preceded, arg>>

SpecFlatten == InitFlatten /\ [][ApplyFlatten]_vars

\* the status codes of a response item whose operationOutcome varies: outside
\* 2xx, null, inside 2xx
OutcomeStatusChoices == {JInt(404), JNull, JInt(200)}

\* an issue without severity whose details are a string, an issue whose details
\* have no text
OneIssue == JObj([issue |-> JList(<<JObj([code |-> JStr(<<"timeout">>),
                                         details |-> JStr(<<"raw">>)])>>)])

BareIssue == JObj([issue |-> JList(<<JObj([severity |-> JStr(<<"fatal">>),
                                          details |-> JObj(Empty)])>>)])

\* the operationOutcome of a response item: none, null, a string, a list, an
\* empty object, an object without issue, with a null issue, with an issue that
\* is a string, with no issues, with one issue, with two
OutcomeShapes ==
    {<<"absent">>, JNull, JStr(<<"failed">>), JList(<<JInt(1)>>), JObj(Empty),
     JObj([text |-> JStr(<<"failed">>)]), JObj([issue |-> JNull]),
     JObj([issue |-> JStr(<<"failed">>)]), JObj([issue |-> JList(<<>>)]),
     OneIssue, BareIssue, TwoIssues}

\* the response item at position k of a payload; requestResourceId is k
ShapedItem(status, k, outcome) ==
    JObj(Merge([requestResourceId |-> JInt(k), statusCode |-> status,
                resourceLocation |-> JStr(<<"Observation/1">>)],
               IF outcome = <<"absent">> THEN Empty ELSE [operationOutcome |-> outcome]))

\* meta with every field the flattener reads, and meta with none
FullMeta ==
    JObj([source |-> JStr(SourceLcaPersist),
          approximateReceiveCount |-> JInt(1),
          organizationId |-> JStr(<<"customer1">>),
          patientId |-> JStr(<<"PT-001">>),
          sourceFhirServer |-> JStr(<<"https://fhir.example">>),
          bundleResourceType |-> JStr(<<"Bundle">>),
          responseTs |-> JStr(TsGood),
          latencyMs |-> JInt(100),
          datastoreId |-> JStr(<<"ds-1">>)])

MetaChoices == {FullMeta, JObj(Empty)}

\* the arguments of flatten_json: payloads of at most n response items of every
\* shape of operationOutcome, under each meta
OutcomeArgs(n) ==
    {[payload |-> JObj([meta |-> meta,
                        response |-> JList([k \in 1..Len(c) |->
                                               ShapedItem(c[k][1], k, c[k][2])])]),
      s3_filename |-> <<"a", ".", "j", "s", "o", "n">>,
      source |-> JStr(Lca)] :
        c \in UNION {[1..m -> OutcomeStatusChoices \X OutcomeShapes] : m \in 0..n},
        meta \in MetaChoices}

InitOutcome ==
    /\ env = [v \in {"SOURCE_BUCKET", "TARGET_BUCKET"} |-> Unset]
    /\ sinkUp = TRUE
    /\ Idle
    /\ arg \in OutcomeArgs(MaxItems)
    /\ out = NoOutcome

SpecOutcome == InitOutcome /\ [][ApplyFlatten]_vars

(* --------------- partitioner and path builder on their own ------------ *)

TsOffset == <<"2", "0", "2", "5", "-", "1", "2", "-", "0", "9", "T",
              "1", "8", ":", "3", "1", ":", "4", "5", "+", "0", "0", ":", "0", "0">>

TsDateOnly == <<"2", "0", "2", "4", "-", "0", "2", "-", "2", "9">>

TsLeapDay == <<"2", "0", "2", "4", "-", "0", "2", "-", "2", "9", "T",
               "0", "7", ":", "0", "5", ":", "0", "0", "Z">>

TsNoSuchDay == <<"2", "0", "2", "5", "-", "0", "2", "-", "3", "0", "T",
                 "1", "0", ":", "0", "0", ":", "0", "0", "Z">>

TsNoSuchHour == <<"2", "0", "2", "5", "-", "1", "2", "-", "0", "9", "T",
                  "2", "5", ":", "0", "0", ":", "0", "0", "Z">>

\* the values of response_ts: none, empty, strings that parse, strings that do
\* not, values that are no string
TimestampChoices ==
    {JNull, JStr(<<>>), JStr(TsGood), JStr(TsOffset), JStr(TsDateOnly), JStr(TsLeapDay),
     JStr(TsBad), JStr(TsNoSuchDay), JStr(TsNoSuchHour),
     JInt(0), JInt(1765305105), JList(<<JStr(TsGood)>>), JObj([ts |-> JStr(TsGood)])}

KeySpace == <<"d", "x", "a", "/", "b", " ", "c", ".", "j", "s", "o", "n">>

KeyTwoDots == <<"i", "n", "/", "a", ".", "v", "1", ".", "j", "s", "o", "n">>

KeyNoExtension == <<"i", "n", ".", "v", "1", "/", "a">>

KeyHidden == <<"i", "n", "/", ".", "j", "s", "o", "n">>

KeyUpper == <<"a", ".", "J", "S", "O", "N">>

\* the origin keys: in a folder, with a space, with two dots, without an
\* extension under a folder with a dot, a name that starts with its only dot,
\* an extension in capitals
FilenameChoices == {KeyA, KeySpace, KeyTwoDots, KeyNoExtension, KeyHidden, KeyUpper}

RECURSIVE Clock(_)
\* the wall clock n hours after its start
Clock(n) == IF n = 0 THEN StartClock ELSE NextHour(Clock(n - 1))

\* the arguments of the partitioner and the path builder, and the wall clock
PartitionArgs ==
    [response_ts : TimestampChoices, filename : FilenameChoices,
     now : {Clock(n) : n \in 0..MaxTicks}]

InitPartition ==
    /\ env = [v \in {"SOURCE_BUCKET", "TARGET_BUCKET"} |-> Unset]
    /\ sinkUp = TRUE
    /\ Idle
    /\ arg \in PartitionArgs
    /\ out = NoOutcome

\* add_partition_columns on the frame of the tests' payload, then
\* generate_output_path, as lambda_handler calls them
ApplyPartition ==
    /\ ~out.returned
    /\ \E part \in {add_partition_columns(flatten_json(PayloadA, Basename(arg.filename),
                                                       JStr(Lca)).val,
                                           JStr(Lca), arg.response_ts, arg.now)},
          path \in {generate_output_path(DefaultTargetBucket, JStr(Lca), arg.filename,
                                         arg.response_ts, arg.now)} :
        out' = [raised |-> part.raised,
                val |-> [df |-> part.val, path |-> path],
                returned |-> TRUE]
    /\ UNCHANGED <<env, now, ticks, sinkUp, cloudwatch, target, pc, event, config, idx,
                   results, record_errors, cur, response, s3calls, published, preceded, arg>>

SpecPartition == InitPartition /\ [][ApplyPartition]_vars

(* ------------------ the receive count of flatten_json ----------------- *)

\* the values of approximateReceiveCount: none, null, zero, more
ReceiveCountChoices == {<<"absent">>, JNull, JInt(0), JInt(1), JInt(3)}

\* the values of the misspelled approxmiateReceiveCount
MisspelledCountChoices == {<<"absent">>, JNull, JInt(0), JInt(2)}

\* the meta object with the receive counts that are there
ReceiveMeta(count, misspelled) ==
    JObj(Merge(Merge([organizationId |-> JStr(<<"customer1">>)],
                     IF count = <<"absent">> THEN Empty
                     ELSE [approximateReceiveCount |-> count]),
               IF misspelled = <<"absent">> THEN Empty
               ELSE [approxmiateReceiveCount |-> misspelled]))

\* the arguments of flatten_json: every pair of receive counts over payloads of
\* at most MaxItems response items
ReceiveArgs ==
    {[payload |-> JObj([meta |-> ReceiveMeta(count, misspelled),
                        response |-> JList([k \in 1..Len(c) |->
                                               ResponseItem(c[k], k, JNull)])]),
      s3_filename |-> KeyA,
      source |-> JStr(Lca)] :
        count \in ReceiveCountChoices, misspelled \in MisspelledCountChoices,
        c \in UNION {[1..m -> {JInt(404), JInt(200), JNull}] : m \in 0..MaxItems}}

InitReceive ==
    /\ env = [v \in {"SOURCE_BUCKET", "TARGET_BUCKET"} |-> Unset]
    /\ sinkUp = TRUE
    /\ Idle
    /\ arg \in ReceiveArgs
    /\ out = NoOutcome

SpecReceive == InitReceive /\ [][ApplyFlatten]_vars

(* ---------------- the body write_parquet_to_s3 stores ----------------- *)

\* the most columns a frame given to the writer lacks
MaxDropped == 2

\* the columns of a frame after add_partition_columns
PartitionedColumns == Range(schema_columns) \cup {"ingest_date", "hour"}

\* the frame without the columns in cols
DropColumns(df, cols) ==
    With(df, LAMBDA d :
        [columns |-> SelectSeq(d.columns, LAMBDA c : c \notin cols),
         rows |-> [k \in 1..Len(d.rows) |->
                      [c \in DOMAIN d.rows[k] \ cols |-> d.rows[k][c]]]])

\* the payloads that give a frame
WrittenPayloads == {PayloadA, PayloadB, PayloadNull, PayloadEmptySource}

\* a payload, and the columns its frame lacks when the writer gets it
WriteArgs ==
    [payload : WrittenPayloads,
     dropped : {cols \in SUBSET PartitionedColumns : Cardinality(cols) <= MaxDropped}]

InitWrite ==
    /\ env = [v \in {"SOURCE_BUCKET", "TARGET_BUCKET"} |-> Unset]
    /\ sinkUp = TRUE
    /\ Idle
    /\ arg \in WriteArgs
    /\ out = NoOutcome

\* flatten_json and add_partition_columns as lambda_handler calls them, then
\* the body write_parquet_to_s3 hands to wr.s3.to_parquet
ApplyWrite ==
    /\ ~out.returned
    /\ \E flat \in {flatten_json(arg.payload, Basename(KeyA), JStr(Lca)).val} :
       \E given \in {DropColumns(add_partition_columns(flat, JStr(Lca),
                                                       Get(Get(arg.payload, "meta"), "responseTs"),
                                                       now).val,
                                  arg.dropped)} :
           out' = [raised |-> "",
                   val |-> [flat |-> flat, given |-> given, body |-> ParquetBody(given)],
                   returned |-> TRUE]
    /\ UNCHANGED <<env, now, ticks, sinkUp, cloudwatch, target, pc, event, config, idx,
                   results, record_errors, cur, response, s3calls, published, preceded, arg>>

SpecWrite == InitWrite /\ [][ApplyWrite]_vars

(* -------------------- read_json_from_s3 on its own -------------------- *)

\* the values of a field of the stored JSON object; absent is no field
MetaShapes == {<<"absent">>, JNull, JObj(Empty), FullMeta}

ResponseShapes ==
    {<<"absent">>, JNull, JInt(0), JStr(<<"none">>), JObj(Empty)}
    \cup {JList([k \in 1..m |-> ShapedItem(JInt(404), k, <<"absent">>)]) : m \in 0..MaxItems}

\* the object with the fields that are there
Fields(meta, items, extra) ==
    JObj(Merge(Merge(IF meta = <<"absent">> THEN Empty ELSE [meta |-> meta],
                     IF items = <<"absent">> THEN Empty ELSE [response |-> items]),
               IF extra THEN [requestId |-> JInt(1)] ELSE Empty))

\* what is stored under the key: text that is no JSON, JSON that is no object,
\* objects with and without meta and response
StoredContents ==
    {NotJson}
    \cup {JsonText(v) : v \in {JNull, JInt(1), JStr(<<"meta">>), JList(<<FullMeta>>)}}
    \cup {JsonText(Fields(meta, items, extra)) :
              meta \in MetaShapes, items \in ResponseShapes, extra \in BOOLEAN}

\* the content under the key, and whether get_object delivers it
ReadArgs == [content : StoredContents, fetched : BOOLEAN]

InitRead ==
    /\ env = [v \in {"SOURCE_BUCKET", "TARGET_BUCKET"} |-> Unset]
    /\ sinkUp = TRUE
    /\ Idle
    /\ arg \in ReadArgs
    /\ out = NoOutcome

\* read_json_from_s3: get_object raises or delivers the content
ApplyRead ==
    /\ ~out.returned
    /\ \E o \in {read_json_from_s3(IF arg.fetched THEN arg.content ELSE NoObject)} :
          out' = [raised |-> o.raised, val |-> o.val, returned |-> TRUE]
    /\ UNCHANGED <<env, now, ticks, sinkUp, cloudwatch, target, pc, event, config, idx,
                   results, record_errors, cur, response, s3calls, published, preceded, arg>>

SpecRead == InitRead /\ [][ApplyRead]_vars

(* ------------------------------ properties ---------------------------- *)

\* the events and settings with which lambda_handler reaches the loop
Loaded(i) ==
    /\ IsDict(event[i])
    /\ IsList(Records(event[i]))
    /\ env["SOURCE_BUCKET"] # <<"set", <<>>>>
    /\ env["TARGET_BUCKET"] # <<"set", <<>>>>

\* the call on the target store that failed for record k of invocation i
PutFailed(i, k) ==
    \E c \in 1..Len(s3calls[i]) :
        /\ s3calls[i][c].op = "put"
        /\ s3calls[i][c].idx = k
        /\ s3calls[i][c].outcome = "error"

\* record k of invocation i has a step that failed
StepFailed(i, k) == RecordsOf(event[i])[k] \in FaultRecords \/ PutFailed(i, k)

\* record k of invocation i got as far as the existence check
Checked(i, k) ==
    \E c \in 1..Len(s3calls[i]) : s3calls[i][c].op = "head" /\ s3calls[i][c].idx = k

\* C1: whichever steps fail in whichever records, the loop goes through every
\* trigger record: while it runs, results holds one entry for each record before
\* the one in hand; when it has ended, one entry for each trigger record, in
\* trigger order; a record with a failed step has a failed entry, and a record
\* without a failing payload is taken to the existence check whatever came before
EveryRecordProcessed ==
    \A i \in Invocations :
        /\ pc[i] \in {"loop", "path", "write"} => Len(results[i]) = idx[i] - 1
        /\ (pc[i] = "done" /\ Loaded(i)) => Len(results[i]) = Len(RecordsOf(event[i]))
        /\ \A k \in 1..Len(results[i]) :
              /\ results[i][k].source_key = PyOr(Extract(RecordsOf(event[i])[k]).key, Unknown)
              /\ StepFailed(i, k) => results[i][k].status = "error"
              /\ RecordsOf(event[i])[k] \notin FaultRecords => Checked(i, k)

\* C1 witness: a batch whose first record failed and whose second was written
FailedThenWritten ==
    /\ pc[1] = "done"
    /\ Len(results[1]) = 2
    /\ results[1][1].status = "error"
    /\ results[1][2].status = "success"
    /\ \E c \in 1..Len(s3calls[1]) :
          s3calls[1][c].op = "put" /\ s3calls[1][c].idx = 2 /\ s3calls[1][c].outcome = "stored"

\* C2: the status code of a result is 200, 207 or 500: 500 exactly when the
\* invocation ended outside the loop (the event or the settings raised), 200
\* exactly when the loop was reached and no record had a failed step, 207
\* exactly when the loop was reached and some record had
StatusCodeMeaning ==
    \A i \in Invocations :
        pc[i] = "done" =>
            LET failed == {k \in 1..Len(RecordsOf(event[i])) : StepFailed(i, k)}
            IN  /\ response[i].statusCode \in {200, 207, 500}
                /\ response[i].statusCode = 500 <=> ~Loaded(i)
                /\ response[i].statusCode = 200 <=> (Loaded(i) /\ failed = {})
                /\ response[i].statusCode = 207 <=> (Loaded(i) /\ failed # {})

\* C2 witness: a batch of two records that both failed, answered with 207
AllFailed207 ==
    /\ pc[1] = "done"
    /\ Len(RecordsOf(event[1])) = 2
    /\ Len(results[1]) = 2
    /\ \A k \in 1..2 : results[1][k].status = "error"
    /\ response[1].statusCode = 207

\* C3: when get_bucket_config raises, the invocation returns 500 and has made no
\* call on an object store and no entry for any record
ConfigFailureShortCircuits ==
    \A i \in Invocations :
        (pc[i] # "idle" /\ get_bucket_config(env).raised # "") =>
            /\ pc[i] = "done"
            /\ response[i].statusCode = 500
            /\ s3calls[i] = <<>>
            /\ results[i] = <<>>
            /\ target = NoStore

\* C3 witness: get_bucket_config raised on an event of two records
ConfigFailedWithRecords ==
    /\ pc[1] = "done"
    /\ get_bucket_config(env).raised # ""
    /\ Len(RecordsOf(event[1])) = 2
    /\ response[1].statusCode = 500

\* C4 as the specification states it: with one of the two settings absent from
\* the environment, an invocation on a well-formed event ends with the 500
\* result of the Configuration category, and no record is processed
AbsentSettingIsFatal ==
    \A i \in Invocations :
        (/\ pc[i] # "idle"
         /\ IsDict(event[i]) /\ IsList(Records(event[i]))
         /\ Unset \in {env["SOURCE_BUCKET"], env["TARGET_BUCKET"]}) =>
            /\ pc[i] = "done"
            /\ response[i].statusCode = 500
            /\ response[i].body.error_category = "ConfigurationError"
            /\ s3calls[i] = <<>>

\* C4 witness: both settings absent, and the record of the event written under
\* the default target bucket
WrittenWithDefaults ==
    /\ pc[1] = "done"
    /\ env["SOURCE_BUCKET"] = Unset
    /\ env["TARGET_BUCKET"] = Unset
    /\ response[1].statusCode = 200
    /\ Len(results[1]) = 1
    /\ \E c \in 1..Len(s3calls[1]) :
          /\ s3calls[1][c].op = "put"
          /\ s3calls[1][c].outcome = "stored"
          /\ s3calls[1][c].where[1] = DefaultTargetBucket

\* a structured result
Structured(r) ==
    /\ DOMAIN r = {"statusCode", "body"}
    /\ r.statusCode \in {200, 207, 500}

\* the steps an invocation that has begun has at most left before it returns
Remaining(i) ==
    IF pc[i] \in {"idle", "done"} THEN 0
    ELSE 3 * (Len(RecordsOf(event[i])) - idx[i])
         + (CASE pc[i] = "loop" -> 4 [] pc[i] = "path" -> 3 [] pc[i] = "write" -> 2)

\* C5: an invocation that has begun returns, and what it returns is a
\* structured result, never an exception, whatever the event is and whichever
\* calls on the object stores, the metrics sink and the settings fail: what is
\* returned is structured, an invocation that has not returned has a step to
\* take, and each of its steps leaves it fewer steps to take
AlwaysReturnsResult ==
    /\ [](\A i \in Invocations : pc[i] = "done" => Structured(response[i]))
    /\ [](\/ pc[1] \in {"idle", "done"}
          \/ /\ pc[1] = "loop"
             /\ idx[1] <= Len(RecordsOf(event[1]))
             /\ \E p \in {ProcessRecord(RecordsOf(event[1])[idx[1]], now)} :
                    ENABLED ReadDone(1, p)
          \/ /\ pc[1] = "path"
             /\ \E output_path \in {generate_output_path(config[1].target_bucket,
                                          cur[1].source, cur[1].key[2], cur[1].response_ts, now)} :
                    \A fault \in BOOLEAN : ENABLED ExistenceCheck(1, output_path, fault)
          \/ ENABLED WriteStep(1)
          \/ ENABLED Finish(1))
    /\ [][pc[1] \notin {"idle", "done"}
            => (Remaining(1)' < Remaining(1) /\ Remaining(1)' >= 0)]_vars

\* C5 witness: a result returned with the metrics sink down after a failed write
ReturnedDespiteFaults ==
    /\ pc[1] = "done"
    /\ ~sinkUp
    /\ Structured(response[1])
    /\ PutFailed(1, 1)

\* the last call invocation i made on an object store
LastCall(i) == s3calls[i][Len(s3calls[i])]

\* invocation i makes the existence check in this step
ChecksExistence(i) ==
    /\ pc[i] = "path"
    /\ Len(s3calls'[i]) = Len(s3calls[i]) + 1
    /\ LastCall(i)'.op = "head"

\* the step ends the record in hand as a duplicate: nothing is stored, the record
\* gets a success entry and no error, DuplicateFileSkipped is published once
SkipsAsDuplicate(i) ==
    /\ target' = target
    /\ pc'[i] = "loop" /\ idx'[i] = idx[i] + 1
    /\ Len(results'[i]) = Len(results[i]) + 1
    /\ results'[i][Len(results'[i])].status = "success"
    /\ record_errors'[i] = record_errors[i]
    /\ published'[i]["DuplicateFileSkipped"] = published[i]["DuplicateFileSkipped"] + 1

\* the calls invocation i made for record k with operation op
CallsFor(i, k, op) ==
    {c \in 1..Len(s3calls[i]) : s3calls[i][c].idx = k /\ s3calls[i][c].op = op}

\* C6 as the specification states it: write_parquet_to_s3 called with a location
\* that holds an object stores nothing, raises nothing and publishes
\* DuplicateFileSkipped
ExistingIsSkipped ==
    [][\A i \in Invocations :
          (ChecksExistence(i) /\ LastCall(i)'.where \in DOMAIN target)
              => SkipsAsDuplicate(i)]_vars

\* C6: write_parquet_to_s3 called with a location that holds an object, when
\* head_object answers, stores nothing, raises nothing and publishes
\* DuplicateFileSkipped; no write is made for a record whose check found the
\* object
FoundIsSkipped ==
    /\ [][\A i \in Invocations :
            (/\ ChecksExistence(i)
             /\ LastCall(i)'.where \in DOMAIN target
             /\ LastCall(i)'.outcome # "error")
                => SkipsAsDuplicate(i)]_vars
    /\ [](\A i \in Invocations : \A c \in 1..Len(s3calls[i]) :
            (s3calls[i][c].op = "head" /\ s3calls[i][c].outcome = "found")
                => CallsFor(i, s3calls[i][c].idx, "put") = {})

\* C6 witness: the second record of a batch found the object the first had stored
\* and was skipped
SecondSkipped ==
    /\ pc[1] = "done"
    /\ Len(s3calls[1]) = 5
    /\ s3calls[1][3].op = "put" /\ s3calls[1][3].outcome = "stored"
    /\ s3calls[1][5].op = "head" /\ s3calls[1][5].outcome = "found"
    /\ s3calls[1][5].where = s3calls[1][3].where
    /\ published[1]["DuplicateFileSkipped"] = 1
    /\ response[1].statusCode = 200

\* C8: an existence check that ends in an error other than a 404 is taken for a
\* missing object: the step that makes it leaves the record without an entry and
\* without an error and goes on to the write, the write is the next call, and a
\* record fails after such a check only when its write failed
CheckErrorAttemptsWrite ==
    /\ [][\A i \in Invocations :
            (ChecksExistence(i) /\ LastCall(i)'.outcome = "error")
                => /\ pc'[i] = "write" /\ idx'[i] = idx[i]
                   /\ results'[i] = results[i]
                   /\ record_errors'[i] = record_errors[i]]_vars
    /\ [](\A i \in Invocations : \A c \in 1..Len(s3calls[i]) :
            (s3calls[i][c].op = "head" /\ s3calls[i][c].outcome = "error")
                => /\ IF c = Len(s3calls[i])
                      THEN pc[i] = "write" /\ idx[i] = s3calls[i][c].idx
                      ELSE /\ s3calls[i][c + 1].op = "put"
                           /\ s3calls[i][c + 1].idx = s3calls[i][c].idx
                           /\ s3calls[i][c + 1].where = s3calls[i][c].where
                   /\ \A k \in 1..Len(results[i]) :
                        (k = s3calls[i][c].idx /\ results[i][k].status = "error")
                            => PutFailed(i, k))

\* C8 witness: the check of a stored object failed, and the write that followed
\* replaced the object
WrittenAfterCheckError ==
    /\ pc[1] = "done"
    /\ Len(s3calls[1]) = 6
    /\ s3calls[1][3].outcome = "stored"
    /\ s3calls[1][5].op = "head" /\ s3calls[1][5].outcome = "error"
    /\ s3calls[1][6].op = "put" /\ s3calls[1][6].outcome = "stored"
    /\ s3calls[1][6].where = s3calls[1][3].where
    /\ results[1][2].status = "success"
    /\ target[s3calls[1][6].where].writer = <<1, 2>>

\* the calls of invocation i with operation op that ended with outcome
Calls(i, op, outcome) ==
    {c \in 1..Len(s3calls[i]) : s3calls[i][c].op = op /\ s3calls[i][c].outcome = outcome}

\* the payload of trigger record r has a timestamp that add_partition_columns
\* and generate_output_path parse
TimestampParses(r) ==
    LET ex == Extract(r)
        response_ts == Get(Get(read_json_from_s3(GetObject(ex.bucket[2], ex.key[2])).val,
                               "meta"), "responseTs")
    IN  /\ Truthy(response_ts)
        /\ IsStr(response_ts)
        /\ fromisoformat(ReplaceChar(response_ts[2], "Z", UtcOffset)).ok

\* invocation 2 began after invocation 1 had returned, and invocation 1 stored
\* the output of the record
Redelivered ==
    /\ pc[2] # "idle"
    /\ 1 \in preceded[2]
    /\ Calls(1, "put", "stored") # {}

\* C7 as the specification states it: when an event is delivered again after the
\* invocation that stored its output has returned, the second invocation makes
\* no write, whatever the timestamp of the payload and the wall clock are
RedeliveryNeverWrites == Redelivered => CallsFor(2, 1, "put") = {}

\* C7: when an event is delivered again after the invocation that stored its
\* output has returned, the second invocation derives the location of the first
\* when the timestamp of the payload parses, whatever the wall clock is, and
\* when the clock has not left the hour; and when it derives that location and
\* its existence check answers, it finds the object and makes no write
RedeliveryFoundIsNoOp ==
    Redelivered =>
        \A c \in CallsFor(2, 1, "head") : \A w \in Calls(1, "put", "stored") :
            /\ (TimestampParses(RecordsOf(event[2])[1]) \/ ticks = 0)
                    => s3calls[2][c].where = s3calls[1][w].where
            /\ (/\ s3calls[2][c].where = s3calls[1][w].where
                /\ s3calls[2][c].outcome # "error")
                    => /\ s3calls[2][c].outcome = "found"
                       /\ CallsFor(2, 1, "put") = {}
                       /\ target[s3calls[1][w].where].writer = <<1, 1>>

\* C7 witness: the event is delivered again in a later hour, its payload has a
\* timestamp, and the second invocation finds the object and returns without a
\* write
RedeliveredAfterTick ==
    /\ Redelivered
    /\ pc[2] = "done"
    /\ ticks = 1
    /\ TimestampParses(RecordsOf(event[2])[1])
    /\ Calls(2, "head", "found") # {}
    /\ CallsFor(2, 1, "put") = {}
    /\ published[2]["DuplicateFileSkipped"] = 1

\* invocation i stores an object in this step
Stores(i) ==
    /\ pc[i] = "write"
    /\ Len(s3calls'[i]) = Len(s3calls[i]) + 1
    /\ LastCall(i)'.outcome = "stored"

\* C9: the write is made whatever the store holds under the location by then:
\* an invocation that saw the location absent and goes on to write stores its
\* object there, in place of the one another invocation stored in between
LastWriteWins ==
    [][\A i \in Invocations :
          Stores(i) =>
              /\ LastCall(i)'.where \in DOMAIN target'
              /\ target'[LastCall(i)'.where].writer = <<i, idx[i]>>
              /\ \A p \in DOMAIN target : p # LastCall(i)'.where => target'[p] = target[p]]_vars

\* C9 witness: two invocations at the same time on one event: both saw the
\* location absent, both stored their object there, and the object of the first
\* invocation replaced that of the second
BothWrote ==
    /\ pc[1] = "done" /\ pc[2] = "done"
    /\ preceded[2] = {}
    /\ Calls(1, "head", "404") # {} /\ Calls(2, "head", "404") # {}
    /\ \E a \in Calls(1, "put", "stored"), b \in Calls(2, "put", "stored") :
          /\ s3calls[1][a].where = s3calls[2][b].where
          /\ target[s3calls[1][a].where].writer = <<1, 1>>
    /\ response[1].statusCode = 200 /\ response[2].statusCode = 200
    /\ published[1]["DuplicateFileSkipped"] = 0 /\ published[2]["DuplicateFileSkipped"] = 0

\* the response items of the payload given to flatten_json
ItemsGiven == Get(arg.payload, "response")[2]

\* the rows of the frame flatten_json returned that come from the item at
\* position k
RowsOf(k) ==
    IF out.raised # "" THEN {}
    ELSE {r \in 1..Len(out.val.rows) : out.val.rows[r]["requestResourceId"] = JInt(k)}

\* the status code of an item is there and lies in 200..299
Succeeded(item) ==
    /\ HasKey(item, "statusCode")
    /\ IsInt(Get(item, "statusCode"))
    /\ Get(item, "statusCode")[2] \in 200..299

\* C10: once flatten_json has ended, no row comes from a response item whose
\* status code is there and lies in 200..299, both ends included, and at least
\* one row comes from every item whose status code is missing, null or an
\* integer outside that range
Exhaustive2xxFilter ==
    out.returned =>
        \A k \in 1..Len(ItemsGiven) :
            IF Succeeded(ItemsGiven[k]) THEN RowsOf(k) = {} ELSE RowsOf(k) # {}

\* C10 witness: a payload of an item with status 299 and an item with status
\* 300 and two issues gave the two rows of the second item
FilteredAtTheEnds ==
    /\ out.returned
    /\ out.raised = ""
    /\ Len(ItemsGiven) = 2
    /\ Get(ItemsGiven[1], "statusCode") = JInt(299)
    /\ Get(ItemsGiven[2], "statusCode") = JInt(300)
    /\ RowsOf(1) = {}
    /\ Cardinality(RowsOf(2)) = 2
    /\ Len(out.val.rows) = 2

\* flatten_json has returned a frame
Flattened == out.returned /\ out.raised = ""

\* the issues of a response item: the elements of operationOutcome.issue when
\* operationOutcome is an object and issue is a list, none otherwise
IssuesOf(item) ==
    IF /\ HasKey(item, "operationOutcome")
       /\ IsDict(Get(item, "operationOutcome"))
       /\ HasKey(Get(item, "operationOutcome"), "issue")
       /\ IsList(Get(Get(item, "operationOutcome"), "issue"))
    THEN Get(Get(item, "operationOutcome"), "issue")[2]
    ELSE <<>>

OutcomeColumns ==
    {"operationOutcomeSeverity", "operationOutcomeCode", "operationOutcomeDetail"}

\* the detail of an issue: the text of details that are an object, the details
\* themselves otherwise, null without details
DetailOf(issue) ==
    IF ~HasKey(issue, "details") THEN JNull
    ELSE IF IsDict(Get(issue, "details")) THEN Get(Get(issue, "details"), "text")
    ELSE Get(issue, "details")

\* C11: in a frame that flatten_json returned, an item outside 2xx with a list
\* of N > 0 issues has exactly N rows, one after the other in the order of the
\* issues; the rows agree on every column but the three operationOutcome
\* columns, and the row of an issue carries its severity, its code and its
\* details (the text of details that are an object)
OneRowPerIssue ==
    Flattened =>
        \A k \in 1..Len(ItemsGiven) :
            LET issues == IssuesOf(ItemsGiven[k])
                first == CHOOSE r \in RowsOf(k) : \A q \in RowsOf(k) : r <= q
            IN  (~Succeeded(ItemsGiven[k]) /\ Len(issues) > 0) =>
                    /\ Cardinality(RowsOf(k)) = Len(issues)
                    /\ RowsOf(k) = first..(first + Len(issues) - 1)
                    /\ \A n \in 1..Len(issues) :
                          LET row == out.val.rows[first + n - 1]
                          IN  /\ row["operationOutcomeSeverity"] = Get(issues[n], "severity")
                              /\ row["operationOutcomeCode"] = Get(issues[n], "code")
                              /\ row["operationOutcomeDetail"] = DetailOf(issues[n])
                              /\ DOMAIN row = DOMAIN out.val.rows[first]
                              /\ \A c \in DOMAIN row \ OutcomeColumns :
                                    row[c] = out.val.rows[first][c]

\* C11 witness: a 404 item with two issues, after an item with one issue, gave
\* the second and third row, with the text of the first issue's details and the
\* second issue's details as they are
TwoIssuesTwoRows ==
    /\ Flattened
    /\ Len(ItemsGiven) = 2
    /\ Get(ItemsGiven[1], "operationOutcome") = OneIssue
    /\ Get(ItemsGiven[2], "statusCode") = JInt(404)
    /\ Get(ItemsGiven[2], "operationOutcome") = TwoIssues
    /\ RowsOf(2) = {2, 3}
    /\ out.val.rows[2]["operationOutcomeSeverity"] = JStr(<<"error">>)
    /\ out.val.rows[2]["operationOutcomeDetail"] = JStr(<<"Missing field">>)
    /\ out.val.rows[3]["operationOutcomeCode"] = JStr(<<"processing">>)
    /\ out.val.rows[3]["operationOutcomeDetail"] = JStr(<<"plain">>)
    /\ out.val.rows[2]["customerId"] = out.val.rows[3]["customerId"]

\* operationOutcome of the item is absent or no object, or its issue field is
\* missing, no list or an empty list
WithoutIssues(item) ==
    \/ ~HasKey(item, "operationOutcome")
    \/ ~IsDict(Get(item, "operationOutcome"))
    \/ ~HasKey(Get(item, "operationOutcome"), "issue")
    \/ ~IsList(Get(Get(item, "operationOutcome"), "issue"))
    \/ Get(Get(item, "operationOutcome"), "issue") = JList(<<>>)

\* C12: in a frame that flatten_json returned, an item outside 2xx whose
\* operationOutcome is absent or no object, or whose issue field is empty,
\* missing or no list, has exactly one row, and the three operationOutcome
\* columns of that row are null
OneNullRowWithoutIssues ==
    Flattened =>
        \A k \in 1..Len(ItemsGiven) :
            (~Succeeded(ItemsGiven[k]) /\ WithoutIssues(ItemsGiven[k])) =>
                /\ Cardinality(RowsOf(k)) = 1
                /\ \A r \in RowsOf(k) : \A c \in OutcomeColumns :
                      c \in DOMAIN out.val.rows[r] /\ out.val.rows[r][c] = JNull

\* C12 witness: a 404 item without operationOutcome and a 404 item whose issue
\* field is a string gave one row each, with the three columns null
NullRowsForShapelessOutcomes ==
    /\ Flattened
    /\ Len(ItemsGiven) = 2
    /\ Get(ItemsGiven[1], "statusCode") = JInt(404)
    /\ ~HasKey(ItemsGiven[1], "operationOutcome")
    /\ Get(ItemsGiven[2], "statusCode") = JInt(404)
    /\ Get(ItemsGiven[2], "operationOutcome") = JObj([issue |-> JStr(<<"failed">>)])
    /\ RowsOf(1) = {1}
    /\ RowsOf(2) = {2}
    /\ \A r \in 1..2 : \A c \in OutcomeColumns : out.val.rows[r][c] = JNull

\* the larger of two numbers
AtLeast(a, b) == IF a >= b THEN a ELSE b

\* flatten_json ends by raising DataTransformationError exactly when the
\* response array is empty or every item has a status code in 2xx, and a frame
\* it returns has at least one row
RaisesWhenEmpty ==
    out.returned =>
        /\ (\A k \in 1..Len(ItemsGiven) : Succeeded(ItemsGiven[k])) <=>
               out.raised = "DataTransformationError"
        /\ out.raised = "DataTransformationError" =>
               CategoryOf(out.raised) = "DataTransformationError"
        /\ out.raised = "" => Len(out.val.rows) >= 1

\* the response array is one item with status 404
Single404 ==
    /\ Len(ItemsGiven) = 1
    /\ Get(ItemsGiven[1], "statusCode") = JInt(404)

\* C13: flatten_json returns no frame without rows: it raises
\* DataTransformationError when the response array is empty or every item is in
\* 2xx, and a frame it returns has at least one row; a response array of a
\* single 404 item gives one row when the item has no issues and as many rows
\* as the item has issues otherwise
NeverEmptyRowSet ==
    /\ RaisesWhenEmpty
    /\ (out.returned /\ Single404) =>
          /\ out.raised = ""
          /\ Len(out.val.rows) = AtLeast(1, Len(IssuesOf(ItemsGiven[1])))

\* C13 as stated: a response array of a single 404 item gives exactly one row
Single404GivesOneRow ==
    /\ RaisesWhenEmpty
    /\ (out.returned /\ Single404) =>
          /\ out.raised = ""
          /\ Len(out.val.rows) = 1

\* C13 witness: a single 404 item with two issues gave two rows
Single404TwoRows ==
    /\ Flattened
    /\ Single404
    /\ Get(ItemsGiven[1], "operationOutcome") = TwoIssues
    /\ Len(out.val.rows) = 2

\* the sixteen columns of the output
SixteenColumns ==
    {"s3Filename", "source", "approximateReceiveCount", "customerId", "patientId",
     "sourceFhirServer", "requestResourceId", "bundleResourceType", "statusCode",
     "operationOutcomeLocation", "operationOutcomeSeverity", "operationOutcomeCode",
     "operationOutcomeDetail", "responseTs", "latencyMs", "datastoreId"}

\* the columns that come from a field of meta, with the field's name
MetaColumns ==
    {<<"customerId", "organizationId">>, <<"patientId", "patientId">>,
     <<"sourceFhirServer", "sourceFhirServer">>,
     <<"bundleResourceType", "bundleResourceType">>, <<"responseTs", "responseTs">>,
     <<"latencyMs", "latencyMs">>, <<"datastoreId", "datastoreId">>,
     <<"approximateReceiveCount", "approximateReceiveCount">>}

\* C14: a frame that flatten_json returned has the sixteen named columns, each
\* once, and every row has a value for each of them, whichever branch gave the
\* row; a column whose field is absent from meta is null in every row
FixedSixteenColumns ==
    Flattened =>
        /\ Cardinality(SixteenColumns) = 16
        /\ Len(out.val.columns) = 16
        /\ Range(out.val.columns) = SixteenColumns
        /\ \A r \in 1..Len(out.val.rows) :
              /\ DOMAIN out.val.rows[r] = SixteenColumns
              /\ \A mc \in MetaColumns :
                    ~HasKey(Get(arg.payload, "meta"), mc[2]) =>
                        out.val.rows[r][mc[1]] = JNull

\* C14 witness: under a meta without fields, an item with two issues and an
\* item with an empty issue list gave three rows of sixteen columns, the
\* customerId null
SixteenColumnsOnEveryBranch ==
    /\ Flattened
    /\ Get(arg.payload, "meta") = JObj(Empty)
    /\ Len(ItemsGiven) = 2
    /\ Get(ItemsGiven[1], "operationOutcome") = TwoIssues
    /\ Get(ItemsGiven[2], "operationOutcome") = JObj([issue |-> JList(<<>>)])
    /\ Len(out.val.rows) = 3
    /\ \A r \in 1..3 : Cardinality(DOMAIN out.val.rows[r]) = 16
    /\ \A r \in 1..3 : out.val.rows[r]["customerId"] = JNull
    /\ out.val.rows[1]["operationOutcomeSeverity"] = JStr(<<"error">>)
    /\ out.val.rows[3]["operationOutcomeSeverity"] = JNull

\* the step appends a success entry for the record in hand of invocation i
SucceedsNow(i) ==
    /\ pc[i] \in {"path", "write"}
    /\ Len(results'[i]) = Len(results[i]) + 1
    /\ results'[i][Len(results'[i])].status = "success"

\* C15: when a record ends as a success, every row of its frame has a source
\* that is not null and that equals the source resolved for the file
SuccessCarriesSource ==
    [][SucceedsNow(1) =>
          \A r \in 1..Len(cur[1].df.rows) :
              /\ cur[1].df.rows[r]["source"] # JNull
              /\ cur[1].df.rows[r]["source"] = cur[1].source]_vars

\* C15 witness: the record of the payload whose meta.source is null ended as a
\* success and its output path has source=None
NullSourceWritten ==
    /\ pc[1] = "done"
    /\ Len(results[1]) = 1
    /\ results[1][1].status = "success"
    /\ results[1][1].source_key = JStr(KeyNull)
    /\ Contains(results[1][1].output_path,
                <<"/", "s", "o", "u", "r", "c", "e", "=", "N", "o", "n", "e", "/">>)
    /\ target # NoStore

\* the part of an output path that encodes the partition key of a row
PartitionOf(row) ==
    <<"/", "s", "o", "u", "r", "c", "e", "=">> \o PyFormat(row["source"])
    \o <<"/", "i", "n", "g", "e", "s", "t", "_", "d", "a", "t", "e", "=">> \o row["ingest_date"][2]
    \o <<"/", "h", "o", "u", "r", "=">> \o row["hour"][2] \o <<"/">>

\* C16: when a record ends as a success, all rows of its frame carry the same
\* source, ingest_date and hour, and the output path of its entry encodes these
\* values, with or without a timestamp and whatever the clock did in between
PartitionKeyMatchesPath ==
    [][\A i \in Invocations :
          SucceedsNow(i) =>
              \A r \in 1..Len(cur[i].df.rows) :
                  /\ PartitionOf(cur[i].df.rows[r]) = PartitionOf(cur[i].df.rows[1])
                  /\ Contains(results'[i][Len(results'[i])].output_path,
                              PartitionOf(cur[i].df.rows[r]))]_vars

\* C16 witness: the record without a timestamp, partitioned at hour 23 before
\* the clock advanced, is about to be written under hour=00
PathAheadOfRows ==
    /\ pc[1] = "write"
    /\ ticks = 1
    /\ cur[1].response_ts = JNull
    /\ cur[1].df.rows[1]["hour"] = JStr(<<"2", "3">>)
    /\ Contains(cur[1].output_path, <<"/", "h", "o", "u", "r", "=", "0", "0", "/">>)

Dec09 == <<"2", "0", "2", "5", "-", "1", "2", "-", "0", "9">>

Feb29 == <<"2", "0", "2", "4", "-", "0", "2", "-", "2", "9">>

\* the timestamps that parse, with their date and hour
ParsedStamps ==
    (JStr(TsGood) :> <<Dec09, <<"1", "8">>>>)
    @@ (JStr(TsOffset) :> <<Dec09, <<"1", "8">>>>)
    @@ (JStr(TsDateOnly) :> <<Feb29, <<"0", "0">>>>)
    @@ (JStr(TsLeapDay) :> <<Feb29, <<"0", "7">>>>)

\* the date and hour the timestamp given stands for: its own when it parses,
\* those of the wall clock otherwise
StampGiven ==
    IF arg.response_ts \in DOMAIN ParsedStamps THEN ParsedStamps[arg.response_ts]
    ELSE <<StrfDate(arg.now), StrfHour(arg.now)>>

\* C17: whatever the timestamp, add_partition_columns and generate_output_path
\* do not raise; a timestamp that parses (with a trailing Z or an offset) gives
\* its own date and hour to every row and to the path, and a timestamp that is
\* absent, empty, no string or does not parse gives the date and hour of the
\* wall clock
TimestampNeverRaises ==
    out.returned =>
        /\ out.raised = ""
        /\ \A r \in 1..Len(out.val.df.rows) :
              /\ out.val.df.rows[r]["ingest_date"] = JStr(StampGiven[1])
              /\ out.val.df.rows[r]["hour"] = JStr(StampGiven[2])
        /\ Contains(out.val.path,
                    <<"/", "i", "n", "g", "e", "s", "t", "_", "d", "a", "t", "e", "=">>
                    \o StampGiven[1] \o <<"/", "h", "o", "u", "r", "=">>
                    \o StampGiven[2] \o <<"/">>)

\* C17 witness: "2025-12-09T18:31:45Z" gave 2025-12-09 and 18 to two rows, with
\* the wall clock at 2025-12-31 23h
ZuluStampDecides ==
    /\ out.returned
    /\ out.raised = ""
    /\ arg.response_ts = JStr(TsGood)
    /\ arg.now = StartClock
    /\ Len(out.val.df.rows) = 2
    /\ out.val.df.rows[2]["ingest_date"] = JStr(Dec09)
    /\ out.val.df.rows[2]["hour"] = JStr(<<"1", "8">>)

\* the final component of each origin key without its extension
BaseNames ==
    (KeyA :> <<"a">>)
    @@ (KeySpace :> <<"b", " ", "c">>)
    @@ (KeyTwoDots :> <<"a", ".", "v", "1">>)
    @@ (KeyNoExtension :> <<"a">>)
    @@ (KeyHidden :> <<".", "j", "s", "o", "n">>)
    @@ (KeyUpper :> <<"a">>)

\* C18: generate_output_path returns
\* s3://<root>/data/source=<source>/ingest_date=<date>/hour=<hour>/<basename>.parquet,
\* where <basename> is the final component of the origin key without its last
\* extension (a name that starts with its only dot has none), spaces and other
\* dots kept
PathLayout ==
    out.returned =>
        out.val.path =
            <<"s", "3", ":", "/", "/">> \o DefaultTargetBucket
            \o <<"/", "d", "a", "t", "a", "/", "s", "o", "u", "r", "c", "e", "=">> \o Lca
            \o <<"/", "i", "n", "g", "e", "s", "t", "_", "d", "a", "t", "e", "=">>
            \o StampGiven[1]
            \o <<"/", "h", "o", "u", "r", "=">> \o StampGiven[2]
            \o <<"/">> \o BaseNames[arg.filename]
            \o <<".", "p", "a", "r", "q", "u", "e", "t">>

\* C18 witness: the key "dxa/b c.json" with the timestamp of 9 December gave
\* the path that ends in hour=18/b c.parquet
SpaceKeptInPath ==
    /\ out.returned
    /\ arg.filename = KeySpace
    /\ arg.response_ts = JStr(TsGood)
    /\ Contains(out.val.path,
                <<"/", "h", "o", "u", "r", "=", "1", "8", "/", "b", " ", "c", ".",
                  "p", "a", "r", "q", "u", "e", "t">>)
    /\ ~Contains(out.val.path, <<"j", "s", "o", "n">>)

\* the stored content is the text of a JSON object with meta and with a
\* response that is an array
WellShaped(content) ==
    /\ content.kind = "json"
    /\ IsDict(content.data)
    /\ HasKey(content.data, "meta")
    /\ HasKey(content.data, "response")
    /\ IsList(Get(content.data, "response"))

\* C19: read_json_from_s3 fails with the kind of the first stage that fails:
\* S3ReadError when the fetch fails, whatever is stored; then JSONParseError
\* when the content is no JSON; then JSONValidationError when the JSON is no
\* object, lacks meta, lacks response or has a response that is no array; it
\* returns the payload, as stored, only when the three stages pass
ReadParseValidateOrder ==
    out.returned =>
        IF ~arg.fetched THEN out.raised = "S3ReadError"
        ELSE IF arg.content.kind = "text" THEN out.raised = "JSONParseError"
        ELSE IF ~WellShaped(arg.content) THEN out.raised = "JSONValidationError"
        ELSE out.raised = "" /\ out.val = arg.content.data

\* C19 witness: an object with meta whose response is null was fetched and
\* refused with JSONValidationError
NullResponseRefused ==
    /\ out.returned
    /\ arg.fetched
    /\ arg.content.kind = "json"
    /\ IsDict(arg.content.data)
    /\ HasKey(arg.content.data, "meta")
    /\ HasKey(arg.content.data, "response")
    /\ Get(arg.content.data, "response") = JNull
    /\ out.raised = "JSONValidationError"

\* the trigger records whose processing raises an exception without a category:
\* KeyError for the record without s3, AttributeError for the response item
\* that is no object
Unclassified(record) == record \in {BadRecord, S3Record(BucketLca, KeyItem)}

\* the entries of invocation i that belong to such records
UnclassifiedEntries(i) ==
    {k \in 1..Len(results[i]) : Unclassified(RecordsOf(event[i])[k])}

\* C20: a record whose processing raises an exception without a category gets
\* a failed entry of category UnknownError, the error breakdown counts these
\* entries under UnknownError, and the batch goes on: the invocation ends with
\* one entry for each record and with 207, not 500
UnknownIsPerRecord ==
    /\ \A k \in UnclassifiedEntries(1) :
          /\ results[1][k].status = "error"
          /\ results[1][k].error_type \in {"KeyError", "AttributeError"}
          /\ results[1][k].error_category = "UnknownError"
    /\ IF UnclassifiedEntries(1) = {} THEN "UnknownError" \notin DOMAIN record_errors[1]
       ELSE record_errors[1]["UnknownError"] = Cardinality(UnclassifiedEntries(1))
    /\ (pc[1] = "done" /\ Loaded(1)) =>
          /\ Len(results[1]) = Len(RecordsOf(event[1]))
          /\ response[1].body.error_breakdown = record_errors[1]
          /\ UnclassifiedEntries(1) # {} => response[1].statusCode = 207

\* C20 witness: the payload with a response item that is no object failed with
\* AttributeError under UnknownError, the record after it was written, and the
\* result is 207 with one UnknownError
UnknownThenWritten ==
    /\ pc[1] = "done"
    /\ Len(results[1]) = 2
    /\ RecordsOf(event[1])[1] = S3Record(BucketLca, KeyItem)
    /\ results[1][1].error_type = "AttributeError"
    /\ results[1][1].error_category = "UnknownError"
    /\ results[1][2].status = "success"
    /\ response[1].statusCode = 207
    /\ response[1].body.error_breakdown = [c \in {"UnknownError"} |-> 1]
    /\ target # NoStore

\* record k of invocation i fails whatever the metrics sink does: its trigger
\* record has no s3 entry, its payload has no rows, or its write failed
FailsWhateverTheSink(i, k) ==
    \/ RecordsOf(event[i])[k] \in {BadRecord, S3Record(BucketLca, KeyAll2xx)}
    \/ PutFailed(i, k)

\* the outcomes of invocation i as the event, the settings and the answers of
\* the object stores fix them: an entry is failed exactly for a record that
\* fails, the target store holds exactly what the writes stored, and the status
\* code is 500 outside the loop, 200 without a failed record, 207 otherwise
OutcomeFixedBySources(i) ==
    /\ \A k \in 1..Len(results[i]) :
          results[i][k].status = IF FailsWhateverTheSink(i, k) THEN "error" ELSE "success"
    /\ DOMAIN target = {s3calls[i][c].where : c \in Calls(i, "put", "stored")}
    /\ pc[i] = "done" =>
          response[i].statusCode =
              IF ~Loaded(i) THEN 500
              ELSE IF \E k \in 1..Len(RecordsOf(event[i])) : FailsWhateverTheSink(i, k)
                   THEN 207 ELSE 200

\* C21: a failure of the metrics sink does not propagate: with the sink failing
\* on any of the steps, the sink holds no more than was published, the entries,
\* the objects written and the status code are those the event, the settings
\* and the object stores fix, and with the sink down the invocation has its
\* next step to take
SinkFailureIsSwallowed ==
    /\ \A n \in MetricNames : cloudwatch[n] <= published[1][n]
    /\ OutcomeFixedBySources(1)
    /\ ~sinkUp =>
          \/ pc[1] = "done"
          \/ pc[1] = "idle" /\ \A ev \in EventsOver(SinkRecords, MaxRecords) : ENABLED Start(1, ev)
          \/ /\ pc[1] = "loop"
             /\ idx[1] <= Len(RecordsOf(event[1]))
             /\ \E p \in {ProcessRecord(RecordsOf(event[1])[idx[1]], now)} :
                    ENABLED ReadDone(1, p)
          \/ /\ pc[1] = "path"
             /\ \E output_path \in {generate_output_path(config[1].target_bucket,
                                          cur[1].source, cur[1].key[2], cur[1].response_ts, now)} :
                    \A fault \in BOOLEAN : ENABLED ExistenceCheck(1, output_path, fault)
          \/ pc[1] = "write" /\ ENABLED WriteStep(1)
          \/ pc[1] = "loop" /\ idx[1] > Len(RecordsOf(event[1])) /\ ENABLED Finish(1)

\* C21 witness: the sink failed on some calls and not on others, and the batch
\* of a record without s3 and a payload that was written ended with 207
SinkFailedOnSomeCalls ==
    /\ pc[1] = "done"
    /\ \E n \in MetricNames : 0 < cloudwatch[n] /\ cloudwatch[n] < published[1][n]
    /\ cloudwatch["Invocations"] = 0
    /\ Len(results[1]) = 2
    /\ results[1][1].status = "error"
    /\ results[1][2].status = "success"
    /\ Calls(1, "put", "stored") # {}
    /\ response[1].statusCode = 207

\* the write of invocation i raises in this step
WriteRaises(i) ==
    /\ pc[i] = "write"
    /\ Len(s3calls'[i]) = Len(s3calls[i]) + 1
    /\ LastCall(i)'.op = "put"
    /\ LastCall(i)'.outcome = "error"

\* C22: when the existence check reported absent and the write raises, the
\* record gets one entry, failed, of type and category S3WriteError, counted
\* once under S3WriteError; nothing is stored, and the loop goes on to the next
\* record: once the invocation has ended, every record after a failed write
\* has its entry, and no record with a failed write has a success entry
WriteFailureIsPerRecord ==
    /\ [][\A i \in Invocations :
            WriteRaises(i) =>
                /\ Len(results'[i]) = Len(results[i]) + 1
                /\ results'[i][Len(results'[i])].status = "error"
                /\ results'[i][Len(results'[i])].error_type = "S3WriteError"
                /\ results'[i][Len(results'[i])].error_category = "S3WriteError"
                /\ results'[i][Len(results'[i])].source_key = cur[i].key
                /\ record_errors'[i]["S3WriteError"] =
                      (IF "S3WriteError" \in DOMAIN record_errors[i]
                       THEN record_errors[i]["S3WriteError"] ELSE 0) + 1
                /\ target' = target
                /\ pc'[i] = "loop"
                /\ idx'[i] = idx[i] + 1]_vars
    /\ [](\A i \in Invocations :
            pc[i] = "done" =>
                \A k \in 1..Len(RecordsOf(event[i])) :
                    PutFailed(i, k) =>
                        /\ Len(results[i]) = Len(RecordsOf(event[i]))
                        /\ results[i][k].status = "error"
                        /\ response[i].statusCode = 207)

\* C22 witness: the write of the first record raised, the record has a failed
\* entry under S3WriteError, and the second record was then written
WrittenAfterFailedWrite ==
    /\ pc[1] = "done"
    /\ Len(results[1]) = 2
    /\ PutFailed(1, 1)
    /\ results[1][1].status = "error"
    /\ results[1][1].error_category = "S3WriteError"
    /\ record_errors[1] = [c \in {"S3WriteError"} |-> 1]
    /\ results[1][2].status = "success"
    /\ \E c \in Calls(1, "put", "stored") : s3calls[1][c].idx = 2

\* the trigger records of Spec that fail after the read and before the path is
\* built: no JSON, a wrong shape, no rows, a source that does not fit the rows
FailsAfterRead ==
    {S3Record(BucketLca, KeyText), S3Record(BucketLca, KeyShape),
     S3Record(BucketLca, KeyAll2xx), S3Record(BucketLca, KeyList)}

\* C23: the calls on the object stores follow the order of the steps: they are
\* made record after record; a record has at most one read, one existence
\* check and one write, in this order; the check is made only after a read
\* that delivered a payload that was then flattened and partitioned, on the
\* path built for the record; the write is made only after a check that did
\* not find the object, on the same path; and a record with a failed entry has
\* stored nothing
StepsInFixedOrder ==
    \A i \in Invocations :
        /\ \A c, d \in 1..Len(s3calls[i]) :
              c < d =>
                  /\ s3calls[i][c].idx <= s3calls[i][d].idx
                  /\ s3calls[i][c].idx = s3calls[i][d].idx =>
                        <<s3calls[i][c].op, s3calls[i][d].op>>
                            \in {<<"get", "head">>, <<"get", "put">>, <<"head", "put">>}
        /\ \A c \in 1..Len(s3calls[i]) :
              LET k == s3calls[i][c].idx
                  record == RecordsOf(event[i])[k]
              IN  /\ record # BadRecord
                  /\ s3calls[i][c].op = "get" =>
                        s3calls[i][c].where = <<Extract(record).bucket[2], Extract(record).key[2]>>
                  /\ s3calls[i][c].op = "head" =>
                        /\ \E g \in CallsFor(i, k, "get") : s3calls[i][g].outcome = "found"
                        /\ record \notin FailsAfterRead
                        /\ Contains(s3calls[i][c].where[2],
                                    SplitextRoot(Basename(Extract(record).key[2])))
                  /\ s3calls[i][c].op = "put" =>
                        \E h \in CallsFor(i, k, "head") :
                            /\ s3calls[i][h].outcome # "found"
                            /\ s3calls[i][h].where = s3calls[i][c].where
        /\ \A k \in 1..Len(results[i]) :
              results[i][k].status = "error" =>
                  \A c \in CallsFor(i, k, "put") : s3calls[i][c].outcome = "error"

\* C23 witness: a batch of a payload without rows and a payload that was
\* written made the calls get; get, head, put
ReadThenCheckThenWrite ==
    /\ pc[1] = "done"
    /\ RecordsOf(event[1]) = <<S3Record(BucketLca, KeyAll2xx), S3Record(BucketLca, KeyA)>>
    /\ [c \in 1..Len(s3calls[1]) |-> <<s3calls[1][c].idx, s3calls[1][c].op>>]
           = <<<<1, "get">>, <<2, "get">>, <<2, "head">>, <<2, "put">>>>
    /\ s3calls[1][3].outcome = "404"
    /\ s3calls[1][4].outcome = "stored"

\* the category of the step at which record k of invocation i failed, told from
\* the record and from the calls on the stores: the read, the parse, the
\* validation, the flatten without rows, the partition columns, the write
CategoryOfFailedStep(i, k) ==
    LET record == RecordsOf(event[i])[k]
    IN  IF \E c \in CallsFor(i, k, "put") : s3calls[i][c].outcome = "error"
        THEN "S3WriteError"
        ELSE IF record = S3Record(BucketLca, KeyGone) THEN "S3ReadError"
        ELSE IF record = S3Record(BucketLca, KeyText) THEN "JSONParseError"
        ELSE IF record = S3Record(BucketLca, KeyShape) THEN "JSONValidationError"
        ELSE IF record = S3Record(BucketLca, KeyAll2xx) THEN "DataTransformationError"
        ELSE IF record = S3Record(BucketLca, KeyList) THEN "PartitioningError"
        ELSE "none"

\* the failed entries of invocation i under category c
EntriesUnder(i, c) ==
    {k \in 1..Len(results[i]) :
        results[i][k].status = "error" /\ results[i][k].error_category = c}

\* C24: every failed record whose failure is one of the six classified faults
\* has in its entry the category of the step that failed, which is also the
\* class of the exception, and the error breakdown counts under every category
\* exactly the entries of that category; the breakdown returned is that count
FaultKindIsFixedWhereRaised ==
    /\ \A k \in 1..Len(results[1]) :
          (results[1][k].status = "error" /\ RecordsOf(event[1])[k] # BadRecord) =>
              /\ CategoryOfFailedStep(1, k) \in ClassifiedErrors
              /\ results[1][k].error_category = CategoryOfFailedStep(1, k)
              /\ results[1][k].error_type = CategoryOfFailedStep(1, k)
    /\ \A c \in ErrorCategory :
          IF EntriesUnder(1, c) = {} THEN c \notin DOMAIN record_errors[1]
          ELSE /\ c \in DOMAIN record_errors[1]
               /\ record_errors[1][c] = Cardinality(EntriesUnder(1, c))
    /\ (pc[1] = "done" /\ Loaded(1)) =>
          response[1].body.error_breakdown = record_errors[1]

\* C24 witness: a batch whose first record failed at the partition columns and
\* whose second failed at the write returned one PartitioningError and one
\* S3WriteError
PartitionAndWriteFaultsCounted ==
    /\ pc[1] = "done"
    /\ Loaded(1)
    /\ RecordsOf(event[1]) = <<S3Record(BucketLca, KeyList), S3Record(BucketLca, KeyA)>>
    /\ \A k \in 1..2 : results[1][k].status = "error"
    /\ results[1][1].error_category = "PartitioningError"
    /\ results[1][2].error_category = "S3WriteError"
    /\ response[1].body.error_breakdown
           = [c \in {"PartitioningError", "S3WriteError"} |-> 1]

\* the schema columns that are no partition column, in the order of the schema
WrittenColumns ==
    <<"s3Filename", "approximateReceiveCount", "customerId", "patientId",
      "sourceFhirServer", "requestResourceId", "bundleResourceType", "statusCode",
      "operationOutcomeLocation", "operationOutcomeSeverity", "operationOutcomeCode",
      "operationOutcomeDetail", "responseTs", "latencyMs", "datastoreId">>

\* C25: the body that is written has exactly the schema columns other than
\* source, and so none of source, ingest_date and hour; it has as many rows as
\* flatten_json produced; every cell is the cell of the frame that was given,
\* and null where the frame lacked the column
WrittenBodyIsDataColumns ==
    out.returned =>
        /\ out.val.body.columns = WrittenColumns
        /\ Range(out.val.body.columns) \cap {"source", "ingest_date", "hour"} = {}
        /\ Len(out.val.body.rows) = Len(out.val.flat.rows)
        /\ \A k \in 1..Len(out.val.body.rows) :
              /\ DOMAIN out.val.body.rows[k] = Range(WrittenColumns)
              /\ \A c \in Range(WrittenColumns) :
                    out.val.body.rows[k][c]
                        = IF c \in Range(out.val.given.columns)
                          THEN out.val.given.rows[k][c] ELSE JNull

\* C25 witness: a frame of two rows that lacked patientId and hour was written
\* with a null patientId
MissingColumnWrittenNull ==
    /\ out.returned
    /\ arg.dropped = {"patientId", "hour"}
    /\ Len(out.val.flat.rows) = 2
    /\ ~IsNull(out.val.flat.rows[1]["patientId"])
    /\ \A k \in 1..2 : IsNull(out.val.body.rows[k]["patientId"])
    /\ "source" \in Range(out.val.given.columns)

\* the receive count of the meta object that was given: approximateReceiveCount
\* when it is there and not null, the misspelled key otherwise, null without both
ReceiveCountGiven ==
    LET meta == Get(arg.payload, "meta")
    IN  IF HasKey(meta, "approximateReceiveCount")
           /\ ~IsNull(Get(meta, "approximateReceiveCount"))
        THEN Get(meta, "approximateReceiveCount")
        ELSE IF HasKey(meta, "approxmiateReceiveCount")
        THEN Get(meta, "approxmiateReceiveCount")
        ELSE JNull

\* C26: every row flatten_json returns has as approximateReceiveCount the value
\* of meta.approximateReceiveCount when that key is there with a value that is
\* not null, zero included; the value of approxmiateReceiveCount only when it
\* is absent or null; and null when both are absent
ReceiveCountPrefersSpelledKey ==
    (out.returned /\ out.raised = "") =>
        \A k \in 1..Len(out.val.rows) :
            out.val.rows[k]["approximateReceiveCount"] = ReceiveCountGiven

\* C26 witness: a payload with approximateReceiveCount 0 and
\* approxmiateReceiveCount 2 was flattened to rows with receive count 2
ZeroReceiveCountReplaced ==
    /\ out.returned
    /\ out.raised = ""
    /\ Get(Get(arg.payload, "meta"), "approximateReceiveCount") = JInt(0)
    /\ Get(Get(arg.payload, "meta"), "approxmiateReceiveCount") = JInt(2)
    /\ Len(out.val.rows) = 2
    /\ \A k \in 1..2 : out.val.rows[k]["approximateReceiveCount"] = JInt(2)

\* the sum of the counts of an error breakdown
RECURSIVE SumOf(_)
SumOf(errors) ==
    IF DOMAIN errors = {} THEN 0
    ELSE LET c == CHOOSE c \in DOMAIN errors : TRUE
         IN  errors[c] + SumOf([k \in DOMAIN errors \ {c} |-> errors[k]])

\* the entries of a result with the given status
EntriesWith(body, status) == {k \in 1..Len(body.results) : body.results[k].status = status}

\* C27: in every result returned after the loop, which is a 200 or a 207, the
\* entries are as many as the trigger records, each a success or an error, and
\* the two counts of the message are the numbers of these; the counts of the
\* error breakdown sum to the number of error entries, and every category of
\* the breakdown counts exactly the error entries of that category
CountsAddUp ==
    (pc[1] = "done" /\ Loaded(1)) =>
        LET body == response[1].body
        IN  /\ response[1].statusCode \in {200, 207}
            /\ Len(body.results) = Len(RecordsOf(event[1]))
            /\ EntriesWith(body, "success") \cup EntriesWith(body, "error")
                   = 1..Len(body.results)
            /\ body.message[2] = Cardinality(EntriesWith(body, "success"))
            /\ body.message[3] = Cardinality(EntriesWith(body, "error"))
            /\ body.message[2] + body.message[3] = Len(RecordsOf(event[1]))
            /\ SumOf(body.error_breakdown) = Cardinality(EntriesWith(body, "error"))
            /\ \A k \in EntriesWith(body, "error") :
                  body.results[k].error_category \in DOMAIN body.error_breakdown
            /\ \A c \in DOMAIN body.error_breakdown :
                  /\ body.error_breakdown[c] > 0
                  /\ body.error_breakdown[c]
                        = Cardinality({k \in EntriesWith(body, "error") :
                                          body.results[k].error_category = c})

\* C27 witness: a batch of the same text that is no JSON twice returned 207
\* with no success, two errors and a breakdown of two under JSONParseError
TwoFailuresOneCategory ==
    /\ pc[1] = "done"
    /\ Loaded(1)
    /\ RecordsOf(event[1]) = <<S3Record(BucketLca, KeyText), S3Record(BucketLca, KeyText)>>
    /\ response[1].statusCode = 207
    /\ response[1].body.message = <<"Processed", 0, 2>>
    /\ response[1].body.error_breakdown = [c \in {"JSONParseError"} |-> 2]

\* two keys with one final component: the same payload under in/a.json and
\* under up/a.json
SameNameKeys == {KeyA, KeyDupA}

\* the trigger records of invocation i whose key is one of the two
SameNamed(i) ==
    {k \in 1..Len(RecordsOf(event[i])) :
        /\ RecordsOf(event[i])[k] # BadRecord
        /\ Extract(RecordsOf(event[i])[k]).key[2] \in SameNameKeys}

\* the batch of invocation i is the two keys, one after the other
TwoDirectoriesOneName(i) ==
    /\ pc[i] = "done"
    /\ Loaded(i)
    /\ Len(RecordsOf(event[i])) = 2
    /\ SameNamed(i) = {1, 2}
    /\ RecordsOf(event[i])[1] # RecordsOf(event[i])[2]

\* the calls on the target store made for the records in ks
TargetCalls(i, ks) ==
    {c \in 1..Len(s3calls[i]) : s3calls[i][c].idx \in ks /\ s3calls[i][c].op \in {"head", "put"}}

\* every call on the target store for one of the two keys names one location,
\* which no other record's call names
OneLocationForTheName(i) ==
    /\ \A c, d \in TargetCalls(i, SameNamed(i)) : s3calls[i][c].where = s3calls[i][d].where
    /\ \A c \in TargetCalls(i, SameNamed(i)) :
       \A d \in TargetCalls(i, (1..Len(RecordsOf(event[i]))) \ SameNamed(i)) :
           s3calls[i][c].where # s3calls[i][d].where

RowsFlattened(i) ==
    Len(flatten_json(GetObject(cur[i].bucket[2], cur[i].key[2]).data,
                     Basename(cur[i].key[2]), cur[i].source).val.rows)

\* the step ends the record in hand in the Success outcome without a write: the
\* store is as it was, no error is counted, and the entry appended is a success
\* with the record's bucket and key, the location that was checked and the
\* number of rows flatten_json produced
EndsInSuccessUnwritten(i) ==
    /\ target' = target
    /\ record_errors'[i] = record_errors[i]
    /\ Len(results'[i]) = Len(results[i]) + 1
    /\ SubSeq(results'[i], 1, Len(results[i])) = results[i]
    /\ LET entry == results'[i][Len(results'[i])]
       IN  /\ entry.status = "success"
           /\ entry.source_bucket = cur[i].bucket
           /\ entry.source_key = cur[i].key
           /\ entry.output_path
                 = generate_output_path(config[i].target_bucket, cur[i].source,
                                        cur[i].key[2], cur[i].response_ts, now)
           /\ SplitS3Path(entry.output_path) = LastCall(i)'.where
           /\ entry.records_processed = RowsFlattened(i)

\* a record that was skipped as a duplicate leaves the result a 200: the status
\* is 200 unless another record has an error entry
SkipKeepsStatus ==
    \A i \in Invocations :
        (pc[i] = "done" /\ Loaded(i) /\ Calls(i, "head", "found") # {}) =>
            /\ \A c \in Calls(i, "head", "found") :
                  results[i][s3calls[i][c].idx].status = "success"
            /\ response[i].statusCode
                  = IF \E k \in 1..Len(results[i]) : results[i][k].status = "error"
                    THEN 207 ELSE 200

\* C29 as the specification states it: a record whose location holds an object
\* when it is checked ends in the Success outcome without a write, with the
\* location and the number of rows in its entry, and leaves the status a 200
ExistingEndsInSuccess ==
    /\ [][\A i \in Invocations :
            (ChecksExistence(i) /\ LastCall(i)'.where \in DOMAIN target)
                => EndsInSuccessUnwritten(i)]_vars
    /\ []SkipKeepsStatus

\* C29: a record whose existence check found an object under its location ends
\* in the Success outcome without a write: its entry has status success, the
\* location that was computed and checked, and as records_processed the number
\* of rows flatten_json produced; nothing is stored and no error is counted,
\* and the result is a 200 unless another record failed
FoundEndsInSuccess ==
    /\ [][\A i \in Invocations :
            (ChecksExistence(i) /\ LastCall(i)'.outcome = "found")
                => EndsInSuccessUnwritten(i)]_vars
    /\ []SkipKeepsStatus

\* C29 witness: the second invocation found the two rows the first had stored,
\* made no write and returned 200 with a success entry of two rows
SkippedReportsTwoRows ==
    /\ pc[1] = "done" /\ pc[2] = "done"
    /\ Loaded(2)
    /\ Calls(2, "head", "found") # {}
    /\ CallsFor(2, 1, "put") = {}
    /\ \A c \in Calls(2, "head", "found") : target[s3calls[2][c].where].writer = <<1, 1>>
    /\ results[2][1].status = "success"
    /\ results[2][1].records_processed = 2
    /\ response[2].statusCode = 200

\* the tags of the heuristics in the order they are tried
SourceTags == <<SourceLcaPersist, SourceDxaPersist, Lca, Dxa>>

\* the source tag the specification gives a payload read from bucket and key:
\* meta.source when meta has the key, else the first tag found in the bucket
\* name or in the key, else unknown
TagExpected(payload, bucket, key) ==
    LET found == {n \in 1..Len(SourceTags) :
                     Contains(bucket, SourceTags[n]) \/ Contains(key, SourceTags[n])}
    IN  IF "source" \in DOMAIN Get(payload, "meta")[2] THEN Get(payload, "meta")[2]["source"]
        ELSE IF found = {} THEN Unknown
        ELSE JStr(SourceTags[CHOOSE n \in found : \A m \in found : n <= m])

\* the tag expected for the record invocation i has in hand
TagInHand(i) ==
    TagExpected(GetObject(cur[i].bucket[2], cur[i].key[2]).data,
                cur[i].bucket[2], cur[i].key[2])

\* invocation i has flattened and partitioned the record in hand
Partitioned(i) == pc[i] \in {"path", "write"}

\* C30: once a record is flattened and partitioned, the source the handler
\* holds is meta.source when meta has the key, whatever the value, else the
\* first of lca-persist, dxa-persist, lca, dxa found in the bucket name or the
\* key, else unknown; every row has this tag in its source column, and the
\* location that is built has it in its source= segment
SourceTagUsedThroughout ==
    Partitioned(1) =>
        /\ cur[1].source = TagInHand(1)
        /\ \A k \in 1..Len(cur[1].df.rows) : cur[1].df.rows[k]["source"] = TagInHand(1)
        /\ pc[1] = "write" =>
              Contains(cur[1].output_path,
                       <<"/", "s", "o", "u", "r", "c", "e", "=">> \o PyFormat(TagInHand(1))
                       \o <<"/">>)

\* C30 witness: a declared source that is the list of a, with a payload of one
\* row, puts a into the row and the list into the location
ListSourceSplitsTag ==
    /\ pc[1] = "write"
    /\ cur[1].source = JList(<<JStr(<<"a">>)>>)
    /\ Len(cur[1].df.rows) = 1
    /\ cur[1].df.rows[1]["source"] = JStr(<<"a">>)
    /\ Contains(cur[1].output_path,
                <<"/", "s", "o", "u", "r", "c", "e", "=", "[", "'", "a", "'", "]", "/">>)

====
